---- MODULE Spec2Model ----
(***************************************************************************)
(* State-machine model of the simulation core of birdbeansgame.c (the      *)
(* richer variant, lines 1-1212): update_game, the click handlers, the     *)
(* tick timer chain and the high-score table.                              *)
(*                                                                         *)
(* Floats are modelled in fixed point: a float f is the integer f * Unit.  *)
(* Positions, speeds, game_speed and times in seconds all use this scale.  *)
(* Products are formed in the order the C expressions form them and each   *)
(* product is truncated to the fixed-point grid.                           *)
(***************************************************************************)
EXTENDS Integers, Sequences, FiniteSets, TLC

\* Fixed-point resolution of a C float: 1.0f is Unit.
Unit == 100 * 1000

\* ---- program constants (#define) ----
GAME_WIDTH == 20
GAME_HEIGHT == 20
PYORO_SIZE == 2
PYORO_VISUAL_SIZE == 5
BEAN_SIZE == 2
TONGUE_WIDTH == 2
TONGUE_SPEED == 15
\* BEAN_SPEED is 1.8f: kept in tenths
BEAN_SPEED_TENTHS == 18
PYORO_SINGLE_STEP == Unit \div 4
PYORO_PENDING_STEPS_MAX == 60
BEAN_SPAWN_FREQUENCY == 2
\* SPEED_ACCELERATION is 0.01f: kept as its reciprocal
SPEED_ACCELERATION_INV == 100
DEATH_DELAY == 1
ANGEL_SPEED == 35
NUM_BACKGROUNDS == 21
SCORE_PER_BACKGROUND == 40
NUM_HIGH_SCORES == 10
HIGH_SCORE_EMPTY == -1
\* Bean beans[5]
NUM_BEANS == 5
\* update_game(0.016f): the tick's delta_time in milliseconds
TICK_MS == 16
\* "s_pending_step_count += 4" of the repeating handlers
REPEAT_STEPS == 4

\* ---- bounds of the model ----
\* cap on s_frame_count (ticks processed while Playing and alive)
MaxFrames == 590
\* cap on the number of games started (= timer registrations by select)
MaxGames == 2
\* cap on the number of button presses delivered while Playing
MaxPresses == 1
\* in the long-horizon specification presses arrive only every PressEvery frames
PressEvery == 94
\* cap on s_frame_count in the short-horizon (walking) specification
MaxWalkFrames == 41
\* in the walking specification presses arrive only every WalkPressEvery frames
\* (in any number on such a frame)
WalkPressEvery == 20

\* cap on s_frame_count in the specification of play up to a death
MaxPlayFrames == 585
\* in that specification presses arrive only every PlayPressEvery frames
PlayPressEvery == 115

\* cap on s_frame_count in the specification of the bean pool
MaxPoolFrames == 700

\* cap on s_frame_count in the repair (angel) specification
MaxAngelFrames == 930
\* in the repair specification the select press arrives only every AngelPressEvery frames
AngelPressEvery == 10

\* cap on s_frame_count in the specification of a bean passing the character
MaxPassFrames == 540
\* in that specification the tongue shot arrives only every PassPressEvery frames
PassPressEvery == 3
\* and the walk before the first tick queues at most PassSteps steps
PassSteps == 12

\* the specification of two games played to their end: frames in all
MaxRecordFrames == 1035

\* rand() outcomes explored: rand() % GAME_WIDTH, rand() % 100, rand() % 5
RandColumns == {10, 12}
RandSpeeds == {99}
RandPinks == {0, 4}
\* rand() outcomes explored in the repair specification: every bean falls in
\* column 12, beside Pyoro, and is Pink whenever a block is missing
AngelColumns == {12}
AngelPinks == {0}
\* rand() outcomes explored in the specification of play up to a death: a bean
\* falls in column 10, onto Pyoro's starting place, or in column 12, beside it
PlayColumns == {10, 12}
\* rand() outcomes explored in the specification of the bean pool: the slowest and
\* the fastest bean, in column 12
PoolSpeeds == {0, 99}

VARIABLES
  s_game,               \* static Game s_game
  s_pending_step_dir,   \* -1 left, 0 none, 1 right
  s_pending_step_count,
  s_frame_count,
  s_background_index,
  s_high_scores,        \* int s_high_scores[NUM_HIGH_SCORES], indexed 0..9
  s_last_game_score,
  timers,               \* number of registered (pending) game_update callbacks
  persist_writes,       \* number of persist_write_data calls made by save_high_scores
  last,                 \* history: the last event, its input, and the queue/position before it
  npress                \* environment: counted presses so far, up to MaxPresses

vars == <<s_game, s_pending_step_dir, s_pending_step_count, s_frame_count,
          s_background_index, s_high_scores, s_last_game_score, timers,
          persist_writes, last, npress>>

\* the program's own state (everything but the history and environment counters)
progvars == <<s_game, s_pending_step_dir, s_pending_step_count, s_frame_count,
              s_background_index, s_high_scores, s_last_game_score, timers,
              persist_writes>>

BeanIdx == 0 .. (NUM_BEANS - 1)
BlockIdx == 0 .. (GAME_WIDTH - 1)

\* ---- fixed-point helpers ----
\* a * b for two fixed-point floats
FMul(a, b) == (a * b) \div Unit
\* a / b for two fixed-point floats, a <= 2.0 (keeps the product in 32 bits)
FDiv(a, b) == (a * (Unit \div 10)) \div (b \div 10)
\* (int) f for a float f >= 0
ToInt(f) == f \div Unit

\* ---- check_collision ----
check_collision(x1, y1, w1, h1, x2, y2, w2, h2) ==
  /\ x1 - w1 \div 2 < x2 + w2 \div 2
  /\ x1 + w1 \div 2 > x2 - w2 \div 2
  /\ y1 - h1 \div 2 < y2 + h2 \div 2
  /\ y1 + h1 \div 2 > y2 - h2 \div 2

\* mutant: the right-hand clamp is missing
ClampXLeftOnly(x) ==
  IF x < (PYORO_SIZE * Unit) \div 2 THEN (PYORO_SIZE * Unit) \div 2 ELSE x

\* ---- apply_pyoro_step, lines 148-153: the clamped candidate position ----
ClampX(x) ==
  IF x < (PYORO_SIZE * Unit) \div 2 THEN (PYORO_SIZE * Unit) \div 2
  ELSE IF x > GAME_WIDTH * Unit - (PYORO_SIZE * Unit) \div 2
       THEN GAME_WIDTH * Unit - (PYORO_SIZE * Unit) \div 2
       ELSE x

\* ---- apply_pyoro_step, lines 154-160: a column under the candidate is missing ----
StepBlocked(g, new_x) ==
  LET block_left == ToInt(new_x - (PYORO_SIZE * Unit) \div 2)
      block_right == ToInt(new_x + (PYORO_SIZE * Unit) \div 2)
  IN \E i \in block_left .. block_right :
        i < GAME_WIDTH /\ i >= 0 /\ ~g.blocks[i].exists

\* ---- apply_pyoro_step ----
apply_pyoro_step(g, step_dir) ==
  LET new_x == ClampX(g.pyoro.x + step_dir * PYORO_SINGLE_STEP)
  IN IF StepBlocked(g, new_x) THEN g
     ELSE [g EXCEPT !.pyoro.x = new_x]

\* mutant: the search loop compares with >= and stops at the first equal entry
insert_at_before_equal(hs, score) ==
  LET hits == {i \in 0 .. (NUM_HIGH_SCORES - 1) :
                 hs[i] = HIGH_SCORE_EMPTY \/ score >= hs[i]}
  IN IF hits = {} THEN -1
     ELSE CHOOSE i \in hits : \A j \in hits : i <= j

\* ---- insert_high_score, lines 182-188: the slot found by the search loop, or -1 ----
insert_at(hs, score) ==
  LET hits == {i \in 0 .. (NUM_HIGH_SCORES - 1) :
                 hs[i] = HIGH_SCORE_EMPTY \/ score > hs[i]}
  IN IF hits = {} THEN -1
     ELSE CHOOSE i \in hits : \A j \in hits : i <= j

\* ---- save_high_scores: one persist_write_data call ----
save_high_scores(pw) == pw + 1

\* mutant: the slot is overwritten without shifting the lower entries down
insert_high_score_overwrite(t, score) ==
  IF insert_at(t.hs, score) < 0 THEN t
  ELSE [hs |-> [t.hs EXCEPT ![insert_at(t.hs, score)] = score],
        pw |-> save_high_scores(t.pw)]

\* mutant: the shift loop stops one slot short of insert_at
insert_high_score_short_shift(t, score) ==
  IF insert_at(t.hs, score) < 0 THEN t
  ELSE [hs |-> [i \in 0 .. (NUM_HIGH_SCORES - 1) |->
                  IF i < insert_at(t.hs, score) THEN t.hs[i]
                  ELSE IF i = insert_at(t.hs, score) THEN score
                  ELSE IF i = insert_at(t.hs, score) + 1 THEN t.hs[i]
                  ELSE t.hs[i - 1]],
        pw |-> save_high_scores(t.pw)]

\* ---- insert_high_score ----
\* t is [hs, pw]: s_high_scores and the number of persistence writes so far
insert_high_score(t, score) ==
  IF insert_at(t.hs, score) < 0 THEN t
  ELSE [hs |-> [i \in 0 .. (NUM_HIGH_SCORES - 1) |->
                  IF i < insert_at(t.hs, score) THEN t.hs[i]
                  ELSE IF i = insert_at(t.hs, score) THEN score
                  ELSE t.hs[i - 1]],
        pw |-> save_high_scores(t.pw)]

\* ---- init_game ----
init_game(g) ==
  [g EXCEPT !.state = "Menu",
            !.score = 0,
            !.game_speed = Unit,
            !.bean_spawn_timer = 0,
            !.death_timer = 0,
            !.game_paused = FALSE,
            !.pyoro.x = (GAME_WIDTH * Unit) \div 2,
            !.pyoro.y = GAME_HEIGHT * Unit - 2 * Unit,
            !.pyoro.direction = 1,
            !.pyoro.dead = FALSE,
            !.pyoro.tongue.active = FALSE,
            !.blocks = [i \in BlockIdx |-> [exists |-> TRUE, is_repairing |-> FALSE]],
            !.beans = [i \in BeanIdx |-> [g.beans[i] EXCEPT !.active = FALSE,
                                                            !.type = "Green"]],
            !.angel.active = FALSE]

\* the zero-initialised static Game before init_game
ZeroGame ==
  [state |-> "Menu", score |-> 0, game_speed |-> 0, bean_spawn_timer |-> 0,
   death_timer |-> 0, game_paused |-> FALSE,
   pyoro |-> [x |-> 0, y |-> 0, direction |-> 0, dead |-> FALSE,
              tongue |-> [active |-> FALSE, x |-> 0, y |-> 0, direction |-> 0,
                          going_back |-> FALSE, caught_bean |-> FALSE]],
   beans |-> [i \in BeanIdx |-> [x |-> 0, y |-> 0, speed |-> 0, active |-> FALSE,
                                 caught |-> FALSE, type |-> "Green"]],
   blocks |-> [i \in BlockIdx |-> [exists |-> FALSE, is_repairing |-> FALSE]],
   angel |-> [x |-> 0, y |-> 0, active |-> FALSE, target_block_index |-> 0,
              going_up |-> FALSE]]

\* ---- find_destroyed_block ----
find_destroyed_block(g) ==
  LET open == {i \in BlockIdx : ~g.blocks[i].exists /\ ~g.blocks[i].is_repairing}
  IN IF open = {} THEN -1 ELSE CHOOSE i \in open : \A j \in open : i <= j

\* mutant: with no free slot the new bean takes slot 0
spawn_bean_overwrite(g, rx, rs, rp) ==
  LET free == {i \in BeanIdx : ~g.beans[i].active}
      i == IF free = {} THEN 0 ELSE CHOOSE k \in free : \A j \in free : k <= j
  IN [g EXCEPT !.beans[i] =
        [x |-> rx * Unit + Unit \div 2,
         y |-> 0,
         speed |-> (rs * Unit) \div 100 + Unit \div 2,
         active |-> TRUE,
         caught |-> FALSE,
         type |-> IF find_destroyed_block(g) >= 0 /\ rp < 2 THEN "Pink" ELSE "Green"]]

\* mutant: a missing block counts for the Pink roll even while it is being repaired
spawn_bean_any_missing(g, rx, rs, rp) ==
  LET free == {i \in BeanIdx : ~g.beans[i].active}
  IN IF free = {} THEN g
     ELSE LET i == CHOOSE k \in free : \A j \in free : k <= j
              pink == (\E b \in BlockIdx : ~g.blocks[b].exists) /\ rp < 2
          IN [g EXCEPT !.beans[i] =
                [x |-> rx * Unit + Unit \div 2,
                 y |-> 0,
                 speed |-> (rs * Unit) \div 100 + Unit \div 2,
                 active |-> TRUE,
                 caught |-> FALSE,
                 type |-> IF pink THEN "Pink" ELSE "Green"]]

\* ---- spawn_bean: rx = rand() % GAME_WIDTH, rs = rand() % 100, rp = rand() % 5 ----
spawn_bean(g, rx, rs, rp) ==
  LET free == {i \in BeanIdx : ~g.beans[i].active}
  IN IF free = {} THEN g
     ELSE LET i == CHOOSE k \in free : \A j \in free : k <= j
              pink == find_destroyed_block(g) >= 0 /\ rp < 2
          IN [g EXCEPT !.beans[i] =
                [x |-> rx * Unit + Unit \div 2,
                 y |-> 0,
                 speed |-> (rs * Unit) \div 100 + Unit \div 2,
                 active |-> TRUE,
                 caught |-> FALSE,
                 type |-> IF pink THEN "Pink" ELSE "Green"]]

\* mutant: the target block is not marked as being repaired
spawn_angel_unmarked(g, block_index) ==
  IF block_index < 0 \/ block_index >= GAME_WIDTH THEN g
  ELSE IF g.blocks[block_index].exists \/ g.blocks[block_index].is_repairing THEN g
  ELSE IF g.angel.active THEN g
  ELSE [g EXCEPT !.angel = [active |-> TRUE,
                            x |-> block_index * Unit + Unit \div 2,
                            y |-> 0,
                            target_block_index |-> block_index,
                            going_up |-> FALSE]]

\* mutant: an active Angel is not checked for, and is sent to the new block
spawn_angel_retarget(g, block_index) ==
  IF block_index < 0 \/ block_index >= GAME_WIDTH THEN g
  ELSE IF g.blocks[block_index].exists \/ g.blocks[block_index].is_repairing THEN g
  ELSE [g EXCEPT !.angel = [active |-> TRUE,
                            x |-> block_index * Unit + Unit \div 2,
                            y |-> 0,
                            target_block_index |-> block_index,
                            going_up |-> FALSE],
                 !.blocks[block_index].is_repairing = TRUE]

\* ---- spawn_angel ----
spawn_angel(g, block_index) ==
  IF block_index < 0 \/ block_index >= GAME_WIDTH THEN g
  ELSE IF g.blocks[block_index].exists \/ g.blocks[block_index].is_repairing THEN g
  ELSE IF g.angel.active THEN g
  ELSE [g EXCEPT !.angel = [active |-> TRUE,
                            x |-> block_index * Unit + Unit \div 2,
                            y |-> 0,
                            target_block_index |-> block_index,
                            going_up |-> FALSE],
                 !.blocks[block_index].is_repairing = TRUE]

\* mutant: the bands are counted from the bottom of the grid
ScoreAddInverted(y) ==
  IF GAME_HEIGHT * Unit - y < (GAME_HEIGHT * Unit * 2) \div 10 THEN 1000
  ELSE IF GAME_HEIGHT * Unit - y < (GAME_HEIGHT * Unit * 4) \div 10 THEN 300
  ELSE IF GAME_HEIGHT * Unit - y < (GAME_HEIGHT * Unit * 6) \div 10 THEN 100
  ELSE IF GAME_HEIGHT * Unit - y < (GAME_HEIGHT * Unit * 8) \div 10 THEN 50
  ELSE 10

\* mutant: the baseline award is subtracted
ScoreAddPenalty(y) ==
  IF y < (GAME_HEIGHT * Unit * 2) \div 10 THEN 1000
  ELSE IF y < (GAME_HEIGHT * Unit * 4) \div 10 THEN 300
  ELSE IF y < (GAME_HEIGHT * Unit * 6) \div 10 THEN 100
  ELSE IF y < (GAME_HEIGHT * Unit * 8) \div 10 THEN 50
  ELSE 0 - 10

\* ---- update_game, lines 387-397: the award for a completed catch ----
ScoreAdd(y) ==
  IF y < (GAME_HEIGHT * Unit * 2) \div 10 THEN 1000
  ELSE IF y < (GAME_HEIGHT * Unit * 4) \div 10 THEN 300
  ELSE IF y < (GAME_HEIGHT * Unit * 6) \div 10 THEN 100
  ELSE IF y < (GAME_HEIGHT * Unit * 8) \div 10 THEN 50
  ELSE 10

\* lowest-index bean that is active and caught, or -1
CaughtBean(g) ==
  LET c == {i \in BeanIdx : g.beans[i].active /\ g.beans[i].caught}
  IN IF c = {} THEN -1 ELSE CHOOSE i \in c : \A j \in c : i <= j

\* mutant: the step is consumed only when Pyoro moved
DrainStepQueueIfMoved(m) ==
  IF m.g.pyoro.tongue.active
  THEN [m EXCEPT !.cnt = 0, !.dir = 0]
  ELSE IF m.cnt > 0 /\ m.dir # 0
       THEN IF apply_pyoro_step(m.g, m.dir) = m.g
            THEN m
            ELSE [g |-> apply_pyoro_step(m.g, m.dir),
                  cnt |-> m.cnt - 1,
                  dir |-> IF m.cnt - 1 <= 0 THEN 0 ELSE m.dir]
       ELSE m

\* mutant: a tick applies two queued steps when two are pending
DrainStepQueueTwo(m) ==
  IF m.g.pyoro.tongue.active
  THEN [m EXCEPT !.cnt = 0, !.dir = 0]
  ELSE IF m.cnt > 1 /\ m.dir # 0
       THEN [g |-> apply_pyoro_step(apply_pyoro_step(m.g, m.dir), m.dir),
             cnt |-> m.cnt - 2,
             dir |-> IF m.cnt - 2 <= 0 THEN 0 ELSE m.dir]
       ELSE IF m.cnt > 0 /\ m.dir # 0
            THEN [g |-> apply_pyoro_step(m.g, m.dir), cnt |-> 0, dir |-> 0]
            ELSE m

\* ---- update_game, lines 334-344: drain the step queue ----
\* m is [g, dir, cnt]: the game, s_pending_step_dir, s_pending_step_count
DrainStepQueue(m) ==
  IF m.g.pyoro.tongue.active
  THEN [m EXCEPT !.cnt = 0, !.dir = 0]
  ELSE IF m.cnt > 0 /\ m.dir # 0
       THEN [g |-> apply_pyoro_step(m.g, m.dir),
             cnt |-> m.cnt - 1,
             dir |-> IF m.cnt - 1 <= 0 THEN 0 ELSE m.dir]
       ELSE m

\* mutant: a caught Pink bean that brings no Angel is removed without a score
TongueRetractPinkUnscored(g, dt) ==
  LET retract_speed == TONGUE_SPEED * 2 * dt
      tx == g.pyoro.tongue.x - g.pyoro.tongue.direction * retract_speed
      ty == g.pyoro.tongue.y + retract_speed
      g1 == [g EXCEPT !.pyoro.tongue.x = tx, !.pyoro.tongue.y = ty]
      c == CaughtBean(g1)
      g2 == IF g1.pyoro.tongue.caught_bean /\ c >= 0
            THEN [g1 EXCEPT !.beans[c].x = tx, !.beans[c].y = ty]
            ELSE g1
  IN IF ty >= g2.pyoro.y
     THEN LET g3 == IF g2.pyoro.tongue.caught_bean /\ c >= 0
                    THEN IF g2.beans[c].type = "Pink"
                            /\ spawn_angel(g2, find_destroyed_block(g2)) = g2
                         THEN [g2 EXCEPT !.beans[c].active = FALSE]
                         ELSE LET ga == IF g2.beans[c].type = "Pink"
                                           /\ find_destroyed_block(g2) >= 0
                                        THEN spawn_angel(g2, find_destroyed_block(g2))
                                        ELSE g2
                              IN [ga EXCEPT !.score = @ + ScoreAdd(ty),
                                            !.beans[c].active = FALSE]
                    ELSE g2
          IN [g3 EXCEPT !.pyoro.tongue.active = FALSE]
     ELSE g2

\* mutant: the retraction completes at the height the tongue started from
TongueRetractEarly(g, dt) ==
  LET retract_speed == TONGUE_SPEED * 2 * dt
      tx == g.pyoro.tongue.x - g.pyoro.tongue.direction * retract_speed
      ty == g.pyoro.tongue.y + retract_speed
      g1 == [g EXCEPT !.pyoro.tongue.x = tx, !.pyoro.tongue.y = ty]
      c == CaughtBean(g1)
      g2 == IF g1.pyoro.tongue.caught_bean /\ c >= 0
            THEN [g1 EXCEPT !.beans[c].x = tx, !.beans[c].y = ty]
            ELSE g1
  IN IF ty >= g2.pyoro.y - (PYORO_VISUAL_SIZE * Unit) \div 2
     THEN LET g3 == IF g2.pyoro.tongue.caught_bean /\ c >= 0
                    THEN LET ga == IF g2.beans[c].type = "Pink"
                                      /\ find_destroyed_block(g2) >= 0
                                   THEN spawn_angel(g2, find_destroyed_block(g2))
                                   ELSE g2
                         IN [ga EXCEPT !.score = @ + ScoreAdd(ty),
                                       !.beans[c].active = FALSE]
                    ELSE g2
          IN [g3 EXCEPT !.pyoro.tongue.active = FALSE]
     ELSE g2

\* ---- update_game, lines 353-407: tongue retracting ----
TongueRetract(g, dt) ==
  LET retract_speed == TONGUE_SPEED * 2 * dt
      tx == g.pyoro.tongue.x - g.pyoro.tongue.direction * retract_speed
      ty == g.pyoro.tongue.y + retract_speed
      g1 == [g EXCEPT !.pyoro.tongue.x = tx, !.pyoro.tongue.y = ty]
      c == CaughtBean(g1)
      g2 == IF g1.pyoro.tongue.caught_bean /\ c >= 0
            THEN [g1 EXCEPT !.beans[c].x = tx, !.beans[c].y = ty]
            ELSE g1
  IN IF ty >= g2.pyoro.y
     THEN LET g3 == IF g2.pyoro.tongue.caught_bean /\ c >= 0
                    THEN LET ga == IF g2.beans[c].type = "Pink"
                                      /\ find_destroyed_block(g2) >= 0
                                   THEN spawn_angel(g2, find_destroyed_block(g2))
                                   ELSE g2
                         IN [ga EXCEPT !.score = @ + ScoreAdd(ty),
                                       !.beans[c].active = FALSE]
                    ELSE g2
          IN [g3 EXCEPT !.pyoro.tongue.active = FALSE]
     ELSE g2

\* mutant: a catch marks the bean but does not turn the tongue back
TongueExtendNoTurn(g, dt) ==
  LET extend_speed == TONGUE_SPEED * dt
      tx == g.pyoro.tongue.x + g.pyoro.tongue.direction * extend_speed
      ty == g.pyoro.tongue.y - extend_speed
      g1 == [g EXCEPT !.pyoro.tongue.x = tx, !.pyoro.tongue.y = ty]
      hit == {i \in BeanIdx :
                /\ g1.beans[i].active
                /\ ~g1.beans[i].caught
                /\ check_collision(tx, ty, TONGUE_WIDTH * Unit, TONGUE_WIDTH * Unit,
                                   g1.beans[i].x, g1.beans[i].y,
                                   BEAN_SIZE * Unit, BEAN_SIZE * Unit)}
      g2 == IF hit = {} THEN g1
            ELSE LET i == CHOOSE k \in hit : \A j \in hit : k <= j
                 IN [g1 EXCEPT !.beans[i].caught = TRUE,
                               !.pyoro.tongue.caught_bean = TRUE]
  IN IF tx < 0 \/ tx > GAME_WIDTH * Unit \/ ty < 0
     THEN [g2 EXCEPT !.pyoro.tongue.going_back = TRUE]
     ELSE g2

\* ---- update_game, lines 408-434: tongue extending ----
TongueExtend(g, dt) ==
  LET extend_speed == TONGUE_SPEED * dt
      tx == g.pyoro.tongue.x + g.pyoro.tongue.direction * extend_speed
      ty == g.pyoro.tongue.y - extend_speed
      g1 == [g EXCEPT !.pyoro.tongue.x = tx, !.pyoro.tongue.y = ty]
      hit == {i \in BeanIdx :
                /\ g1.beans[i].active
                /\ ~g1.beans[i].caught
                /\ check_collision(tx, ty, TONGUE_WIDTH * Unit, TONGUE_WIDTH * Unit,
                                   g1.beans[i].x, g1.beans[i].y,
                                   BEAN_SIZE * Unit, BEAN_SIZE * Unit)}
      g2 == IF hit = {} THEN g1
            ELSE LET i == CHOOSE k \in hit : \A j \in hit : k <= j
                 IN [g1 EXCEPT !.beans[i].caught = TRUE,
                               !.pyoro.tongue.caught_bean = TRUE,
                               !.pyoro.tongue.going_back = TRUE]
  IN IF tx < 0 \/ tx > GAME_WIDTH * Unit \/ ty < 0
     THEN [g2 EXCEPT !.pyoro.tongue.going_back = TRUE]
     ELSE g2

\* ---- update_game, lines 351-435 ----
UpdateTongue(g, dt) ==
  IF ~g.pyoro.tongue.active THEN g
  ELSE IF g.pyoro.tongue.going_back THEN TongueRetract(g, dt)
  ELSE TongueExtend(g, dt)

\* mutant: the hit marks Pyoro dead but does not start the death timer
BeanStepNoTimer(g, i, dt) ==
  IF ~(g.beans[i].active /\ ~g.beans[i].caught) THEN [g |-> g, brk |-> FALSE]
  ELSE
    LET ny == g.beans[i].y
                + FMul(FMul((BEAN_SPEED_TENTHS * g.beans[i].speed) \div 10, dt),
                       g.game_speed)
        g1 == [g EXCEPT !.beans[i].y = ny]
    IN IF /\ ~g1.pyoro.dead
          /\ ~g1.pyoro.tongue.active
          /\ check_collision(g1.pyoro.x, g1.pyoro.y,
                             PYORO_SIZE * Unit, PYORO_SIZE * Unit,
                             g1.beans[i].x, ny, BEAN_SIZE * Unit, BEAN_SIZE * Unit)
       THEN [g |-> [g1 EXCEPT !.pyoro.dead = TRUE], brk |-> TRUE]
       ELSE IF ny >= GAME_HEIGHT * Unit - Unit
            THEN LET block_index == ToInt(g1.beans[i].x)
                     g2 == IF block_index >= 0 /\ block_index < GAME_WIDTH
                              /\ g1.blocks[block_index].exists
                           THEN [g1 EXCEPT !.blocks[block_index].exists = FALSE]
                           ELSE g1
                 IN [g |-> [g2 EXCEPT !.beans[i].active = FALSE], brk |-> FALSE]
            ELSE [g |-> g1, brk |-> FALSE]

\* mutant: a bean that reaches the ground is removed but leaves the block standing
BeanStepKeepBlock(g, i, dt) ==
  IF ~(g.beans[i].active /\ ~g.beans[i].caught) THEN [g |-> g, brk |-> FALSE]
  ELSE
    LET ny == g.beans[i].y
                + FMul(FMul((BEAN_SPEED_TENTHS * g.beans[i].speed) \div 10, dt),
                       g.game_speed)
        g1 == [g EXCEPT !.beans[i].y = ny]
    IN IF /\ ~g1.pyoro.dead
          /\ ~g1.pyoro.tongue.active
          /\ check_collision(g1.pyoro.x, g1.pyoro.y,
                             PYORO_SIZE * Unit, PYORO_SIZE * Unit,
                             g1.beans[i].x, ny, BEAN_SIZE * Unit, BEAN_SIZE * Unit)
       THEN [g |-> [g1 EXCEPT !.pyoro.dead = TRUE,
                              !.death_timer = DEATH_DELAY * Unit],
             brk |-> TRUE]
       ELSE IF ny >= GAME_HEIGHT * Unit - Unit
            THEN [g |-> [g1 EXCEPT !.beans[i].active = FALSE], brk |-> FALSE]
            ELSE [g |-> g1, brk |-> FALSE]

\* mutant: the hit does not leave the bean loop
BeanStepNoBreak(g, i, dt) ==
  IF ~(g.beans[i].active /\ ~g.beans[i].caught) THEN [g |-> g, brk |-> FALSE]
  ELSE
    LET ny == g.beans[i].y
                + FMul(FMul((BEAN_SPEED_TENTHS * g.beans[i].speed) \div 10, dt),
                       g.game_speed)
        g1 == [g EXCEPT !.beans[i].y = ny]
    IN IF /\ ~g1.pyoro.dead
          /\ ~g1.pyoro.tongue.active
          /\ check_collision(g1.pyoro.x, g1.pyoro.y,
                             PYORO_SIZE * Unit, PYORO_SIZE * Unit,
                             g1.beans[i].x, ny, BEAN_SIZE * Unit, BEAN_SIZE * Unit)
       THEN [g |-> [g1 EXCEPT !.pyoro.dead = TRUE,
                              !.death_timer = DEATH_DELAY * Unit],
             brk |-> FALSE]
       ELSE IF ny >= GAME_HEIGHT * Unit - Unit
            THEN LET block_index == ToInt(g1.beans[i].x)
                     g2 == IF block_index >= 0 /\ block_index < GAME_WIDTH
                              /\ g1.blocks[block_index].exists
                           THEN [g1 EXCEPT !.blocks[block_index].exists = FALSE]
                           ELSE g1
                 IN [g |-> [g2 EXCEPT !.beans[i].active = FALSE], brk |-> FALSE]
            ELSE [g |-> g1, brk |-> FALSE]

\* mutant: the bean loop makes no collision test
BeanStepNoHit(g, i, dt) ==
  IF ~(g.beans[i].active /\ ~g.beans[i].caught) THEN [g |-> g, brk |-> FALSE]
  ELSE
    LET ny == g.beans[i].y
                + FMul(FMul((BEAN_SPEED_TENTHS * g.beans[i].speed) \div 10, dt),
                       g.game_speed)
        g1 == [g EXCEPT !.beans[i].y = ny]
    IN IF ny >= GAME_HEIGHT * Unit - Unit
       THEN LET block_index == ToInt(g1.beans[i].x)
                g2 == IF block_index >= 0 /\ block_index < GAME_WIDTH
                         /\ g1.blocks[block_index].exists
                      THEN [g1 EXCEPT !.blocks[block_index].exists = FALSE]
                      ELSE g1
            IN [g |-> [g2 EXCEPT !.beans[i].active = FALSE], brk |-> FALSE]
       ELSE [g |-> g1, brk |-> FALSE]

\* mutant: the bean loop moves caught beans as well
BeanStepCaughtToo(g, i, dt) ==
  IF ~g.beans[i].active THEN [g |-> g, brk |-> FALSE]
  ELSE
    LET ny == g.beans[i].y
                + FMul(FMul((BEAN_SPEED_TENTHS * g.beans[i].speed) \div 10, dt),
                       g.game_speed)
        g1 == [g EXCEPT !.beans[i].y = ny]
        dies == /\ ~g1.pyoro.dead
                /\ ~g1.pyoro.tongue.active
                /\ check_collision(g1.pyoro.x, g1.pyoro.y,
                                   PYORO_SIZE * Unit, PYORO_SIZE * Unit,
                                   g1.beans[i].x, ny,
                                   BEAN_SIZE * Unit, BEAN_SIZE * Unit)
    IN IF dies
       THEN [g |-> [g1 EXCEPT !.pyoro.dead = TRUE,
                              !.death_timer = DEATH_DELAY * Unit],
             brk |-> TRUE]
       ELSE IF ny >= GAME_HEIGHT * Unit - Unit
            THEN LET block_index == ToInt(g1.beans[i].x)
                     g2 == IF block_index >= 0 /\ block_index < GAME_WIDTH
                              /\ g1.blocks[block_index].exists
                           THEN [g1 EXCEPT !.blocks[block_index].exists = FALSE]
                           ELSE g1
                 IN [g |-> [g2 EXCEPT !.beans[i].active = FALSE], brk |-> FALSE]
            ELSE [g |-> g1, brk |-> FALSE]

\* mutant: the collision test ignores the tongue
BeanStepUnderTongue(g, i, dt) ==
  IF ~(g.beans[i].active /\ ~g.beans[i].caught) THEN [g |-> g, brk |-> FALSE]
  ELSE
    LET ny == g.beans[i].y
                + FMul(FMul((BEAN_SPEED_TENTHS * g.beans[i].speed) \div 10, dt),
                       g.game_speed)
        g1 == [g EXCEPT !.beans[i].y = ny]
        dies == /\ ~g1.pyoro.dead
                /\ check_collision(g1.pyoro.x, g1.pyoro.y,
                                   PYORO_SIZE * Unit, PYORO_SIZE * Unit,
                                   g1.beans[i].x, ny,
                                   BEAN_SIZE * Unit, BEAN_SIZE * Unit)
    IN IF dies
       THEN [g |-> [g1 EXCEPT !.pyoro.dead = TRUE,
                              !.death_timer = DEATH_DELAY * Unit],
             brk |-> TRUE]
       ELSE IF ny >= GAME_HEIGHT * Unit - Unit
            THEN LET block_index == ToInt(g1.beans[i].x)
                     g2 == IF block_index >= 0 /\ block_index < GAME_WIDTH
                              /\ g1.blocks[block_index].exists
                           THEN [g1 EXCEPT !.blocks[block_index].exists = FALSE]
                           ELSE g1
                 IN [g |-> [g2 EXCEPT !.beans[i].active = FALSE], brk |-> FALSE]
            ELSE [g |-> g1, brk |-> FALSE]

\* ---- update_game, lines 439-465: one iteration of the bean loop ----
\* returns [g, brk]: brk is the break taken when Pyoro dies
BeanStep(g, i, dt) ==
  IF ~(g.beans[i].active /\ ~g.beans[i].caught) THEN [g |-> g, brk |-> FALSE]
  ELSE
    LET ny == g.beans[i].y
                + FMul(FMul((BEAN_SPEED_TENTHS * g.beans[i].speed) \div 10, dt),
                       g.game_speed)
        g1 == [g EXCEPT !.beans[i].y = ny]
        dies == /\ ~g1.pyoro.dead
                /\ ~g1.pyoro.tongue.active
                /\ check_collision(g1.pyoro.x, g1.pyoro.y,
                                   PYORO_SIZE * Unit, PYORO_SIZE * Unit,
                                   g1.beans[i].x, ny,
                                   BEAN_SIZE * Unit, BEAN_SIZE * Unit)
    IN IF dies
       THEN [g |-> [g1 EXCEPT !.pyoro.dead = TRUE,
                              !.death_timer = DEATH_DELAY * Unit],
             brk |-> TRUE]
       ELSE IF ny >= GAME_HEIGHT * Unit - Unit
            THEN LET block_index == ToInt(g1.beans[i].x)
                     g2 == IF block_index >= 0 /\ block_index < GAME_WIDTH
                              /\ g1.blocks[block_index].exists
                           THEN [g1 EXCEPT !.blocks[block_index].exists = FALSE]
                           ELSE g1
                 IN [g |-> [g2 EXCEPT !.beans[i].active = FALSE], brk |-> FALSE]
            ELSE [g |-> g1, brk |-> FALSE]

RECURSIVE BeanLoop(_, _, _)
BeanLoop(g, i, dt) ==
  IF i >= NUM_BEANS THEN g
  ELSE LET r == BeanStep(g, i, dt)
       IN IF r.brk THEN r.g ELSE BeanLoop(r.g, i + 1, dt)

\* ---- update_game, lines 437-466 ----
UpdateBeans(g, dt) == BeanLoop(g, 0, dt)

\* mutant: the Angel turns back at the ground without restoring its block
UpdateAngelNoRestore(g, dt) ==
  IF ~g.angel.active THEN g
  ELSE IF ~g.angel.going_up
       THEN LET ny == g.angel.y + ANGEL_SPEED * dt
                g1 == [g EXCEPT !.angel.y = ny]
            IN IF ny >= GAME_HEIGHT * Unit - Unit
               THEN [g1 EXCEPT !.angel.going_up = TRUE]
               ELSE g1
       ELSE LET ny == g.angel.y - ANGEL_SPEED * dt
                g1 == [g EXCEPT !.angel.y = ny]
            IN IF ny < 0 THEN [g1 EXCEPT !.angel.active = FALSE] ELSE g1

\* mutant: the descending Angel restores its block on every tick of the descent
UpdateAngelRestoreEarly(g, dt) ==
  IF ~g.angel.active THEN g
  ELSE IF ~g.angel.going_up
       THEN LET ny == g.angel.y + ANGEL_SPEED * dt
                block_idx == g.angel.target_block_index
                g1 == [g EXCEPT !.angel.y = ny,
                                !.blocks[block_idx] =
                                   [exists |-> TRUE, is_repairing |-> FALSE]]
            IN IF ny >= GAME_HEIGHT * Unit - Unit
               THEN [g1 EXCEPT !.angel.going_up = TRUE]
               ELSE g1
       ELSE LET ny == g.angel.y - ANGEL_SPEED * dt
                g1 == [g EXCEPT !.angel.y = ny]
            IN IF ny < 0 THEN [g1 EXCEPT !.angel.active = FALSE] ELSE g1

\* mutant: the arriving Angel restores the block and leaves is_repairing set
UpdateAngelKeepFlag(g, dt) ==
  IF ~g.angel.active THEN g
  ELSE IF ~g.angel.going_up
       THEN LET ny == g.angel.y + ANGEL_SPEED * dt
                g1 == [g EXCEPT !.angel.y = ny]
            IN IF ny >= GAME_HEIGHT * Unit - Unit
               THEN LET block_idx == g1.angel.target_block_index
                        g2 == IF block_idx >= 0 /\ block_idx < GAME_WIDTH
                              THEN [g1 EXCEPT !.blocks[block_idx].exists = TRUE]
                              ELSE g1
                    IN [g2 EXCEPT !.angel.going_up = TRUE]
               ELSE g1
       ELSE LET ny == g.angel.y - ANGEL_SPEED * dt
                g1 == [g EXCEPT !.angel.y = ny]
            IN IF ny < 0 THEN [g1 EXCEPT !.angel.active = FALSE] ELSE g1

\* ---- update_game, lines 468-494 ----
UpdateAngel(g, dt) ==
  IF ~g.angel.active THEN g
  ELSE IF ~g.angel.going_up
       THEN LET ny == g.angel.y + ANGEL_SPEED * dt
                g1 == [g EXCEPT !.angel.y = ny]
            IN IF ny >= GAME_HEIGHT * Unit - Unit
               THEN LET block_idx == g1.angel.target_block_index
                        g2 == IF block_idx >= 0 /\ block_idx < GAME_WIDTH
                              THEN [g1 EXCEPT !.blocks[block_idx] =
                                      [exists |-> TRUE, is_repairing |-> FALSE]]
                              ELSE g1
                    IN [g2 EXCEPT !.angel.going_up = TRUE]
               ELSE g1
       ELSE LET ny == g.angel.y - ANGEL_SPEED * dt
                g1 == [g EXCEPT !.angel.y = ny]
            IN IF ny < 0 THEN [g1 EXCEPT !.angel.active = FALSE] ELSE g1

\* ---- update_game, lines 496-501 ----
SpawnBeans(g, dt, rx, rs, rp) ==
  LET t == g.bean_spawn_timer + dt
  IN IF t >= FDiv(BEAN_SPAWN_FREQUENCY * Unit, g.game_speed)
     THEN [spawn_bean(g, rx, rs, rp) EXCEPT !.bean_spawn_timer = 0]
     ELSE [g EXCEPT !.bean_spawn_timer = t]

\* ---- update_game, lines 508-522: the background index ----
NewBackground(score) ==
  IF score \div SCORE_PER_BACKGROUND >= NUM_BACKGROUNDS
  THEN NUM_BACKGROUNDS - 1
  ELSE score \div SCORE_PER_BACKGROUND

\* delta_time of game_update's call update_game(0.016f)
DeltaTime == (TICK_MS * Unit) \div 1000

\* mutant: the bean update runs first, before the step queue and the tongue
UpdateAliveBeansFirst(m, delta_time, rx, rs, rp) ==
  LET dt == FMul(delta_time, m.g.game_speed)
      m1 == [m EXCEPT !.g.game_speed = @ + dt \div SPEED_ACCELERATION_INV]
      g2 == UpdateBeans(m1.g, dt)
      m3 == DrainStepQueue([m1 EXCEPT !.g = g2])
      g4 == UpdateTongue(m3.g, dt)
      g5 == UpdateAngel(g4, dt)
      g6 == SpawnBeans(g5, dt, rx, rs, rp)
  IN [m3 EXCEPT !.g = g6]

\* mutant: the tick does not raise game_speed
UpdateAliveNoSpeedUp(m, delta_time, rx, rs, rp) ==
  LET dt == FMul(delta_time, m.g.game_speed)
      m2 == DrainStepQueue(m)
      g3 == UpdateTongue(m2.g, dt)
      g4 == UpdateBeans(g3, dt)
      g5 == UpdateAngel(g4, dt)
      g6 == SpawnBeans(g5, dt, rx, rs, rp)
  IN [m2 EXCEPT !.g = g6]

\* ---- update_game, lines 329-501, for a living Pyoro ----
\* m is [g, dir, cnt]; the result has the same shape
UpdateAlive(m, delta_time, rx, rs, rp) ==
  LET dt == FMul(delta_time, m.g.game_speed)
      m1 == [m EXCEPT !.g.game_speed = @ + dt \div SPEED_ACCELERATION_INV]
      m2 == DrainStepQueue(m1)
      g3 == UpdateTongue(m2.g, dt)
      g4 == UpdateBeans(g3, dt)
      g5 == UpdateAngel(g4, dt)
      g6 == SpawnBeans(g5, dt, rx, rs, rp)
  IN [m2 EXCEPT !.g = g6]

\* mutant: the game ends on the first tick after the death, whatever the timer
UpdateDeadNoWait(d, delta_time) ==
  [g |-> [d.g EXCEPT !.death_timer = @ - delta_time, !.state = "GameOver"],
   hs |-> insert_high_score([hs |-> d.hs, pw |-> d.pw], d.g.score).hs,
   ls |-> d.g.score,
   pw |-> insert_high_score([hs |-> d.hs, pw |-> d.pw], d.g.score).pw]

\* mutant: the dead branch records the score on every tick of the death delay
UpdateDeadEveryTick(d, delta_time) ==
  LET t == d.g.death_timer - delta_time
  IN [g |-> [d.g EXCEPT !.death_timer = t,
                        !.state = IF t <= 0 THEN "GameOver" ELSE @],
      hs |-> insert_high_score([hs |-> d.hs, pw |-> d.pw], d.g.score).hs,
      ls |-> d.g.score,
      pw |-> insert_high_score([hs |-> d.hs, pw |-> d.pw], d.g.score).pw]

\* ---- update_game, lines 316-327, for a dead Pyoro ----
\* d is [g, hs, ls, pw]: the game, s_high_scores, s_last_game_score and the
\* number of persistence writes
UpdateDead(d, delta_time) ==
  LET t == d.g.death_timer - delta_time
  IN IF t <= 0
     THEN [g |-> [d.g EXCEPT !.death_timer = t, !.state = "GameOver"],
           hs |-> insert_high_score([hs |-> d.hs, pw |-> d.pw], d.g.score).hs,
           ls |-> d.g.score,
           pw |-> insert_high_score([hs |-> d.hs, pw |-> d.pw], d.g.score).pw]
     ELSE [d EXCEPT !.g.death_timer = t]

\* ---- the whole program state as one record, for the handlers below ----
Prog ==
  [g |-> s_game, dir |-> s_pending_step_dir, cnt |-> s_pending_step_count,
   frame |-> s_frame_count, bg |-> s_background_index, hs |-> s_high_scores,
   ls |-> s_last_game_score, timers |-> timers, pw |-> persist_writes]

SetProg(w) ==
  /\ s_game' = w.g
  /\ s_pending_step_dir' = w.dir
  /\ s_pending_step_count' = w.cnt
  /\ s_frame_count' = w.frame
  /\ s_background_index' = w.bg
  /\ s_high_scores' = w.hs
  /\ s_last_game_score' = w.ls
  /\ timers' = w.timers
  /\ persist_writes' = w.pw

\* mutant: the dead branch does not return, and the game logic runs on
update_playing_no_return(w, delta_time, rx, rs, rp) ==
  LET d == UpdateDead([g |-> w.g, hs |-> w.hs, ls |-> w.ls, pw |-> w.pw],
                      delta_time)
      w1 == IF w.g.pyoro.dead
            THEN [w EXCEPT !.g = d.g, !.hs = d.hs, !.ls = d.ls, !.pw = d.pw]
            ELSE w
      m == UpdateAlive([g |-> w1.g, dir |-> w1.dir, cnt |-> w1.cnt],
                       delta_time, rx, rs, rp)
  IN [w1 EXCEPT !.g = m.g, !.dir = m.dir, !.cnt = m.cnt,
                !.frame = @ + 1,
                !.bg = NewBackground(m.g.score)]

\* ---- update_game, lines 316-525: the body behind the Playing/paused guard ----
update_playing(w, delta_time, rx, rs, rp) ==
  IF w.g.pyoro.dead
  THEN LET d == UpdateDead([g |-> w.g, hs |-> w.hs, ls |-> w.ls, pw |-> w.pw],
                           delta_time)
       IN [w EXCEPT !.g = d.g, !.hs = d.hs, !.ls = d.ls, !.pw = d.pw]
  ELSE LET m == UpdateAlive([g |-> w.g, dir |-> w.dir, cnt |-> w.cnt],
                            delta_time, rx, rs, rp)
       IN [w EXCEPT !.g = m.g, !.dir = m.dir, !.cnt = m.cnt,
                    !.frame = @ + 1,
                    !.bg = NewBackground(m.g.score)]

\* mutant: the guard forgets the GameOver state
update_game_menu_only(w, delta_time, rx, rs, rp) ==
  IF w.g.state = "Menu" \/ w.g.game_paused THEN w
  ELSE update_playing(w, delta_time, rx, rs, rp)

\* ---- update_game ----
update_game(w, delta_time, rx, rs, rp) ==
  IF w.g.state # "Playing" \/ w.g.game_paused THEN w
  ELSE update_playing(w, delta_time, rx, rs, rp)

\* ---- game_update: the timer callback; it registers its successor ----
game_update(w, rx, rs, rp) ==
  LET w1 == update_game(w, DeltaTime, rx, rs, rp)
  IN [w1 EXCEPT !.timers = (@ - 1) + 1]

\* mutant: the step queue is not cleared
reset_game_keep_queue(w) ==
  [w EXCEPT !.g = [init_game(w.g) EXCEPT !.state = "Playing"],
            !.bg = 0]

\* ---- reset_game ----
reset_game(w) ==
  [w EXCEPT !.g = [init_game(w.g) EXCEPT !.state = "Playing"],
            !.dir = 0,
            !.cnt = 0,
            !.bg = 0]

\* mutant: the tongue is extended without clearing the step queue
ExtendTongueKeepQueue(w) ==
  IF w.g.pyoro.tongue.active THEN w
  ELSE [w EXCEPT
          !.g.pyoro.tongue =
            [active |-> TRUE,
             x |-> w.g.pyoro.x
                     + ((PYORO_VISUAL_SIZE * Unit) \div 2 + (6 * Unit) \div 10)
                       * w.g.pyoro.direction,
             y |-> w.g.pyoro.y - (PYORO_VISUAL_SIZE * Unit) \div 2 + (6 * Unit) \div 10,
             direction |-> w.g.pyoro.direction,
             going_back |-> FALSE,
             caught_bean |-> FALSE]]

\* mutant: an active tongue is restarted
ExtendTongueAgain(w) ==
  [w EXCEPT
     !.cnt = 0,
     !.dir = 0,
     !.g.pyoro.tongue =
       [active |-> TRUE,
        x |-> w.g.pyoro.x
                + ((PYORO_VISUAL_SIZE * Unit) \div 2 + (6 * Unit) \div 10)
                  * w.g.pyoro.direction,
        y |-> w.g.pyoro.y - (PYORO_VISUAL_SIZE * Unit) \div 2 + (6 * Unit) \div 10,
        direction |-> w.g.pyoro.direction,
        going_back |-> FALSE,
        caught_bean |-> FALSE]]

\* ---- prv_select_click_handler, lines 942-956: extend the tongue ----
ExtendTongue(w) ==
  IF w.g.pyoro.tongue.active THEN w
  ELSE [w EXCEPT
          !.cnt = 0,
          !.dir = 0,
          !.g.pyoro.tongue =
            [active |-> TRUE,
             x |-> w.g.pyoro.x
                     + ((PYORO_VISUAL_SIZE * Unit) \div 2 + (6 * Unit) \div 10)
                       * w.g.pyoro.direction,
             y |-> w.g.pyoro.y - (PYORO_VISUAL_SIZE * Unit) \div 2 + (6 * Unit) \div 10,
             direction |-> w.g.pyoro.direction,
             going_back |-> FALSE,
             caught_bean |-> FALSE]]

\* ---- prv_select_click_handler ----
prv_select_click_handler(w) ==
  IF w.g.state = "Menu"
  THEN [reset_game(w) EXCEPT !.timers = @ + 1]
  ELSE IF w.g.state = "GameOver"
       THEN [w EXCEPT !.g.state = "Menu"]
       ELSE IF w.g.state = "Playing" /\ ~w.g.pyoro.dead
            THEN ExtendTongue(w)
            ELSE w

\* ---- prv_up_click_handler, line 960: the guard shared by the four up/down handlers ----
MoveAccepted(w) ==
  w.g.state = "Playing" /\ ~w.g.pyoro.dead /\ ~w.g.pyoro.tongue.active

\* mutant: a repeating press queues a single step
MoveClickOneStep(w, new_dir, steps) ==
  IF ~MoveAccepted(w) THEN w
  ELSE IF w.g.pyoro.direction = -new_dir
       THEN [w EXCEPT !.g.pyoro.direction = new_dir, !.cnt = 0, !.dir = 0]
       ELSE [w EXCEPT !.g.pyoro.direction = new_dir,
                      !.dir = new_dir,
                      !.cnt = IF w.cnt + 1 > PYORO_PENDING_STEPS_MAX
                              THEN PYORO_PENDING_STEPS_MAX
                              ELSE w.cnt + 1]

\* mutant: a press against the facing turns Pyoro and queues the steps as well
MoveClickTurnAndStep(w, new_dir, steps) ==
  IF ~MoveAccepted(w) THEN w
  ELSE [w EXCEPT !.g.pyoro.direction = new_dir,
                 !.dir = new_dir,
                 !.cnt = IF w.cnt + steps > PYORO_PENDING_STEPS_MAX
                         THEN PYORO_PENDING_STEPS_MAX
                         ELSE w.cnt + steps]

\* mutant: the pending count is not clamped to PYORO_PENDING_STEPS_MAX
MoveClickNoClamp(w, new_dir, steps) ==
  IF ~MoveAccepted(w) THEN w
  ELSE IF w.g.pyoro.direction = -new_dir
       THEN [w EXCEPT !.g.pyoro.direction = new_dir, !.cnt = 0, !.dir = 0]
       ELSE [w EXCEPT !.g.pyoro.direction = new_dir,
                      !.dir = new_dir,
                      !.cnt = w.cnt + steps]

\* mutant: the guard of the up/down handlers forgets that Pyoro is dead
MoveClickWhileDead(w, new_dir, steps) ==
  IF ~(w.g.state = "Playing" /\ ~w.g.pyoro.tongue.active) THEN w
  ELSE IF w.g.pyoro.direction = -new_dir
       THEN [w EXCEPT !.g.pyoro.direction = new_dir, !.cnt = 0, !.dir = 0]
       ELSE [w EXCEPT !.g.pyoro.direction = new_dir,
                      !.dir = new_dir,
                      !.cnt = IF w.cnt + steps > PYORO_PENDING_STEPS_MAX
                              THEN PYORO_PENDING_STEPS_MAX
                              ELSE w.cnt + steps]

\* mutant: the guard of the up/down handlers forgets the tongue
MoveClickUnderTongue(w, new_dir, steps) ==
  IF ~(w.g.state = "Playing" /\ ~w.g.pyoro.dead) THEN w
  ELSE LET was_dir == w.g.pyoro.direction
           w1 == [w EXCEPT !.g.pyoro.direction = new_dir]
       IN IF was_dir = -new_dir
          THEN [w1 EXCEPT !.cnt = 0, !.dir = 0]
          ELSE [w1 EXCEPT !.dir = new_dir,
                          !.cnt = IF w.cnt + steps > PYORO_PENDING_STEPS_MAX
                                  THEN PYORO_PENDING_STEPS_MAX
                                  ELSE w.cnt + steps]

\* the body shared by the four up/down handlers: new_dir is -1 (up) or 1 (down),
\* steps is 1 (single click) or 4 (repeating click)
MoveClick(w, new_dir, steps) ==
  IF ~MoveAccepted(w) THEN w
  ELSE LET was_dir == w.g.pyoro.direction
           w1 == [w EXCEPT !.g.pyoro.direction = new_dir]
       IN IF was_dir = -new_dir
          THEN [w1 EXCEPT !.cnt = 0, !.dir = 0]
          ELSE [w1 EXCEPT !.dir = new_dir,
                          !.cnt = IF w.cnt + steps > PYORO_PENDING_STEPS_MAX
                                  THEN PYORO_PENDING_STEPS_MAX
                                  ELSE w.cnt + steps]

prv_up_click_handler(w) == MoveClick(w, -1, 1)
prv_down_click_handler(w) == MoveClick(w, 1, 1)
prv_up_repeating_click_handler(w) == MoveClick(w, -1, REPEAT_STEPS)
prv_down_repeating_click_handler(w) == MoveClick(w, 1, REPEAT_STEPS)

\* ---- prv_window_load: load_high_scores (empty persistent store) and init_game ----
Init ==
  /\ s_game = init_game(ZeroGame)
  /\ s_pending_step_dir = 0
  /\ s_pending_step_count = 0
  /\ s_frame_count = 0
  /\ s_background_index = 0
  /\ s_high_scores = [i \in 0 .. (NUM_HIGH_SCORES - 1) |-> HIGH_SCORE_EMPTY]
  /\ s_last_game_score = 0
  /\ timers = 0
  /\ persist_writes = 0
  /\ last = [op |-> "init", arg |-> 0, cnt |-> 0, x |-> 0, pw |-> 0]
  /\ npress = 0

\* history: the event, its input (a score or a block index), and the pending
\* count, pyoro.x and number of persistence writes it found
NoteArg(op, arg) ==
  last' = [op |-> op, arg |-> arg, cnt |-> s_pending_step_count,
           x |-> s_game.pyoro.x, pw |-> persist_writes]

Note(op) == NoteArg(op, 0)

\* a press the handlers act on: it uses up the press budget
Counted == MoveAccepted(Prog)

\* ---- actions ----
\* one pending timer callback fires
Tick(cols, speeds, pinks) ==
  /\ timers > 0
  /\ \E rx \in cols, rs \in speeds, rp \in pinks :
        SetProg(game_update(Prog, rx, rs, rp))
  /\ Note("tick")
  /\ UNCHANGED npress

\* the largest press budget of any specification
PressCap == MaxPresses + 1

Press(op, w) ==
  /\ SetProg(w)
  /\ Note(op)
  /\ npress' = IF Counted /\ npress < PressCap THEN npress + 1 ELSE npress

Select == Press("select", prv_select_click_handler(Prog))
Up == Press("up", prv_up_click_handler(Prog))
Down == Press("down", prv_down_click_handler(Prog))
UpRepeat == Press("up_repeat", prv_up_repeating_click_handler(Prog))
DownRepeat == Press("down_repeat", prv_down_repeating_click_handler(Prog))

\* ---- environment of the long-horizon specification ----
\* a counted press needs budget and arrives on a frame that is a multiple of
\* PressEvery; a new game is started at most MaxGames times
PressAllowed ==
  /\ Counted => (npress < MaxPresses /\ s_frame_count % PressEvery = 0)
  /\ s_game.state = "Menu" => timers < MaxGames

Next ==
  \/ Tick(RandColumns, RandSpeeds, RandPinks) /\ s_frame_count' <= MaxFrames
  \/ PressAllowed /\ Select
  \/ PressAllowed /\ Up
  \/ PressAllowed /\ Down
  \/ PressAllowed /\ UpRepeat
  \/ PressAllowed /\ DownRepeat

Spec == Init /\ [][Next]_vars

\* ---- environment of the short-horizon (walking) specification ----
\* any number of counted presses, on frames that are multiples of WalkPressEvery;
\* one game of MaxWalkFrames frames
WalkAllowed ==
  /\ Counted => s_frame_count % WalkPressEvery = 0
  /\ s_game.state = "Menu" => timers < 1

NextWalk ==
  \/ Tick(RandColumns, RandSpeeds, RandPinks) /\ s_frame_count' <= MaxWalkFrames
  \/ WalkAllowed /\ Select
  \/ WalkAllowed /\ Up
  \/ WalkAllowed /\ Down
  \/ WalkAllowed /\ UpRepeat
  \/ WalkAllowed /\ DownRepeat

SpecWalk == Init /\ [][NextWalk]_vars

\* ---- environment of the specification of play up to a death ----
\* at most PressCap presses that the handlers act on, of any button, on frames that
\* are multiples of PlayPressEvery; at most MaxGames games of MaxPlayFrames frames
\* in all
PlayAllowed ==
  /\ Counted => (npress < PressCap /\ s_frame_count % PlayPressEvery = 0)
  /\ s_game.state = "Menu" => timers < MaxGames

NextPlay ==
  \/ Tick(PlayColumns, RandSpeeds, AngelPinks) /\ s_frame_count' <= MaxPlayFrames
  \/ PlayAllowed /\ Select
  \/ PlayAllowed /\ Up
  \/ PlayAllowed /\ Down
  \/ PlayAllowed /\ UpRepeat
  \/ PlayAllowed /\ DownRepeat

SpecPlay == Init /\ [][NextPlay]_vars

\* ---- environment of the specification of the bean pool ----
\* one game of MaxPoolFrames frames in which no button is pressed after the select
\* that starts it
PoolAllowed ==
  /\ ~Counted
  /\ s_game.state = "Menu" => timers < 1

NextPool ==
  \/ Tick(AngelColumns, PoolSpeeds, AngelPinks) /\ s_frame_count' <= MaxPoolFrames
  \/ PoolAllowed /\ Select

SpecPool == Init /\ [][NextPool]_vars

\* ---- environment of the repair (angel) specification ----
\* one game of MaxAngelFrames frames in which only select is pressed: at most
\* PressCap tongue shots, on frames that are multiples of AngelPressEvery
AngelAllowed ==
  /\ Counted => (npress < PressCap /\ s_frame_count % AngelPressEvery = 0)
  /\ s_game.state = "Menu" => timers < 1

NextAngel ==
  \/ Tick(AngelColumns, RandSpeeds, AngelPinks) /\ s_frame_count' <= MaxAngelFrames
  \/ AngelAllowed /\ Select

SpecAngel == Init /\ [][NextAngel]_vars

\* ---- the repair specification with the timer's fairness ----
\* The frame cap does not stop the ticks while the tongue is out or an Angel is in
\* flight.
TickAngelFair ==
  /\ Tick(AngelColumns, RandSpeeds, AngelPinks)
  /\ \/ s_frame_count' <= MaxAngelFrames
     \/ s_game.pyoro.tongue.active
     \/ s_game.angel.active

NextAngelFair ==
  \/ TickAngelFair
  \/ AngelAllowed /\ Select

\* game_update registers its successor on every call (line 931), so a pending
\* callback always fires; in a running game with Pyoro alive it reaches the
\* increment of s_frame_count (update_game, line 347).  That step is weakly fair.
FrameAdvances ==
  /\ timers > 0
  /\ s_game.state = "Playing"
  /\ ~s_game.game_paused
  /\ ~s_game.pyoro.dead
  /\ \/ s_frame_count < MaxAngelFrames
     \/ s_game.pyoro.tongue.active
     \/ s_game.angel.active
  /\ s_frame_count' = s_frame_count + 1

SpecAngelFair ==
  Init /\ [][NextAngelFair]_vars /\ WF_s_frame_count(FrameAdvances)

\* ---- environment of the specification of the order of a tick's stages ----
\* the repair environment with walking: one game of MaxAngelFrames frames, at most
\* PressCap presses that the handlers act on; a tongue shot arrives on a frame that
\* is a multiple of AngelPressEvery, a repeating down press on one that is a
\* multiple of PlayPressEvery
OrderAllowed(every) ==
  /\ Counted => (npress < PressCap /\ s_frame_count % every = 0)
  /\ s_game.state = "Menu" => timers < 1

NextOrder ==
  \/ Tick(AngelColumns, RandSpeeds, AngelPinks) /\ s_frame_count' <= MaxAngelFrames
  \/ OrderAllowed(AngelPressEvery) /\ Select
  \/ OrderAllowed(PlayPressEvery) /\ Counted /\ DownRepeat

SpecOrder == Init /\ [][NextOrder]_vars

\* ---- environment of the specification of a bean passing the character ----
\* rand() outcomes explored there: every bean falls in column 14
PassColumns == {14}

\* one game of MaxPassFrames frames: repeating down presses before the first tick
\* walk Pyoro up to PassSteps steps to the right, a single up press on a frame that
\* is a multiple of PlayPressEvery turns it to the left once it stands, and the
\* first tongue shot of the game (init_game leaves tongue.y at 0) arrives on a frame
\* that is a multiple of PassPressEvery
PassStart == s_game.state = "Menu" /\ timers < 1

PassShot ==
  /\ Counted
  /\ s_game.pyoro.tongue.y = 0
  /\ s_frame_count % PassPressEvery = 0

PassWalk ==
  /\ Counted
  /\ s_frame_count = 0
  /\ s_pending_step_count < PassSteps

PassTurn ==
  /\ Counted
  /\ s_frame_count > 0
  /\ s_frame_count % PlayPressEvery = 0
  /\ s_pending_step_count = 0
  /\ s_game.pyoro.direction = 1

NextPass ==
  \/ Tick(PassColumns, RandSpeeds, AngelPinks) /\ s_frame_count' <= MaxPassFrames
  \/ (PassStart \/ PassShot) /\ Select
  \/ PassWalk /\ DownRepeat
  \/ PassTurn /\ Up

SpecPass == Init /\ [][NextPass]_vars

\* ---- environment of the specification of two games played to their end ----
\* beans fall in the character's column or in reach of its tongue; at most MaxGames games of
\* MaxRecordFrames frames in all, with at most PressCap tongue shots, on frames that
\* are multiples of PlayPressEvery
RecordColumns == {10, 12}

RecordAllowed ==
  /\ Counted => (npress < PressCap /\ s_frame_count % PlayPressEvery = 0)
  /\ s_game.state = "Menu" => timers < MaxGames

NextRecord ==
  \/ Tick(RecordColumns, RandSpeeds, AngelPinks) /\ s_frame_count' <= MaxRecordFrames
  \/ RecordAllowed /\ Select

SpecRecord == Init /\ [][NextRecord]_vars

\* ---- specification of spawn_angel as a function of the game ----
\* the columns whose blocks the inputs have lost
SpawnAngelColumns == {10, 11, 12, 13}

\* a game in play in which beans have destroyed the blocks of the columns in D
\* (update_game, lines 455-460)
GameWithout(D) ==
  [init_game(ZeroGame) EXCEPT
     !.state = "Playing",
     !.blocks = [i \in BlockIdx |-> [exists |-> i \notin D, is_repairing |-> FALSE]]]

\* the inputs of spawn_angel: no Angel; an Angel sent to a missing block t; and an
\* Angel that has restored t and is on its way up, with blocks lost before or since
SpawnAngelInputs ==
  {GameWithout(D) : D \in SUBSET SpawnAngelColumns}
  \cup {spawn_angel(GameWithout(D), t) :
          D \in SUBSET SpawnAngelColumns, t \in SpawnAngelColumns}
  \cup {[GameWithout(D) EXCEPT !.angel = [active |-> TRUE,
                                          x |-> t * Unit + Unit \div 2,
                                          y |-> GAME_HEIGHT * Unit - 2 * Unit,
                                          target_block_index |-> t,
                                          going_up |-> TRUE]] :
          D \in SUBSET SpawnAngelColumns, t \in SpawnAngelColumns}

InitSpawnAngel ==
  /\ s_game \in SpawnAngelInputs
  /\ s_pending_step_dir = 0
  /\ s_pending_step_count = 0
  /\ s_frame_count = 0
  /\ s_background_index = 0
  /\ s_high_scores = [i \in 0 .. (NUM_HIGH_SCORES - 1) |-> HIGH_SCORE_EMPTY]
  /\ s_last_game_score = 0
  /\ timers = 1
  /\ persist_writes = 0
  /\ last = [op |-> "init", arg |-> 0, cnt |-> 0, x |-> 0, pw |-> 0]
  /\ npress = 0

\* one call spawn_angel(block_index)
CallSpawnAngel(block_index) ==
  /\ SetProg([Prog EXCEPT !.g = spawn_angel(s_game, block_index)])
  /\ NoteArg("spawn_angel", block_index)
  /\ UNCHANGED npress

NextSpawnAngel == \E block_index \in -1 .. GAME_WIDTH : CallSpawnAngel(block_index)

SpecSpawnAngel == InitSpawnAngel /\ [][NextSpawnAngel]_vars

\* ---- specification of the high-score table ----
\* the final scores of the games played
FinalScores == {10, 50, 75, 200}

\* update_game, lines 320-321: a game ends with the given score
RecordScore(score) ==
  /\ SetProg([Prog EXCEPT
                !.ls = score,
                !.hs = insert_high_score([hs |-> s_high_scores, pw |-> persist_writes],
                                         score).hs,
                !.pw = insert_high_score([hs |-> s_high_scores, pw |-> persist_writes],
                                         score).pw])
  /\ NoteArg("record_score", score)
  /\ UNCHANGED npress

NextScores == \E score \in FinalScores : RecordScore(score)

SpecScores == Init /\ [][NextScores]_vars

(***************************************************************************)
(* Properties                                                              *)
(***************************************************************************)

\* the step is the firing of a timer callback (the Tick action)
IsTick == last'.op = "tick"

\* C1: the game state changes only Menu -> Playing on a select press,
\* Playing -> GameOver on the tick that takes a dead Pyoro's death timer from above
\* zero to zero or below, and GameOver -> Menu on a select press; GameOver is never
\* entered with Pyoro alive.
C1_StateEdges ==
  [][/\ (s_game'.state # s_game.state) =>
          \/ /\ s_game.state = "Menu"
             /\ s_game'.state = "Playing"
             /\ last'.op = "select"
          \/ /\ s_game.state = "Playing"
             /\ s_game'.state = "GameOver"
             /\ IsTick
             /\ s_game.pyoro.dead
             /\ s_game.death_timer > 0
             /\ s_game'.death_timer <= 0
          \/ /\ s_game.state = "GameOver"
             /\ s_game'.state = "Menu"
             /\ last'.op = "select"
     /\ (s_game'.state = "GameOver") => s_game'.pyoro.dead]_vars

\* a second game is being played: all three edges were taken
C1_Witness == s_game.state = "Playing" /\ timers = 2

\* C2: a tick delivered while the state is not Playing, or while paused, leaves
\* the whole program state unchanged.  (game_paused is never set by the program,
\* so only the Menu and GameOver cases occur.)
C2_IdleTickNoOp ==
  [][(IsTick /\ (s_game.state # "Playing" \/ s_game.game_paused))
        => UNCHANGED progvars]_vars

\* a tick was delivered in Menu: ticks never lead into Menu, so it started there
C2_Witness == last.op = "tick" /\ s_game.state = "Menu"

\* C3: Pyoro dies only on a tick, with the tongue inactive after that tick's tongue
\* update, and the death timer is
\* then DEATH_DELAY; while Playing a dead Pyoro stays dead, the timer only counts
\* down by one delta_time per tick and is never restarted; the state becomes
\* GameOver on the 63rd tick after the death and not earlier, and the score is then
\* in the high-score table; dead is cleared only by the reset of the next game.
C3_DeathOnceThenGameOver ==
  [][/\ (~s_game.pyoro.dead /\ s_game'.pyoro.dead) =>
          /\ IsTick
          /\ ~s_game'.pyoro.tongue.active
          /\ s_game'.death_timer = DEATH_DELAY * Unit
          /\ s_game'.state = "Playing"
     /\ (s_game.pyoro.dead /\ s_game.state = "Playing") =>
          /\ s_game'.pyoro.dead
          /\ \E k \in 0 .. 62 : s_game.death_timer = DEATH_DELAY * Unit - k * DeltaTime
          /\ s_game'.death_timer =
               IF IsTick THEN s_game.death_timer - DeltaTime ELSE s_game.death_timer
          /\ s_game'.state =
               IF IsTick /\ s_game.death_timer = DEATH_DELAY * Unit - 62 * DeltaTime
               THEN "GameOver" ELSE "Playing"
          /\ (s_game'.state = "GameOver") =>
               /\ \E i \in DOMAIN s_high_scores' : s_high_scores'[i] = s_game.score
               /\ s_last_game_score' = s_game.score
     /\ (s_game.pyoro.dead /\ ~s_game'.pyoro.dead) =>
          s_game.state = "Menu" /\ s_game'.state = "Playing"]_vars

\* the 63rd tick after a death has just ended the game
C3_Witness ==
  /\ s_game.state = "GameOver"
  /\ last.op = "tick"
  /\ s_game.pyoro.dead
  /\ s_game.death_timer = DEATH_DELAY * Unit - 63 * DeltaTime
  /\ \E i \in DOMAIN s_high_scores : s_high_scores[i] = s_game.score

\* the award the claim states for a tip height y
C4_Award(y) ==
  IF y < 4 * Unit THEN 1000
  ELSE IF y < 8 * Unit THEN 300
  ELSE IF y < 12 * Unit THEN 100
  ELSE IF y < 16 * Unit THEN 50
  ELSE 10

\* a tick on which the retraction completes with a caught bean
C4_CatchCompletes ==
  /\ IsTick
  /\ s_game.pyoro.tongue.active
  /\ s_game.pyoro.tongue.caught_bean
  /\ CaughtBean(s_game) >= 0
  /\ ~s_game'.pyoro.tongue.active

\* C4: when a retraction completes with a caught bean the score grows by exactly
\* the award of the band the tip's height at completion lies in (1000 for y < 4,
\* 300 for y < 8, 100 for y < 12, 50 for y < 16, else 10); the award computed for
\* heights 0.1, 0.5 and 0.9 of the grid is 1000, 100 and 10, and at every half unit
\* of height it is the band's.
C4_AwardByHeight ==
  /\ ScoreAdd((GAME_HEIGHT * Unit) \div 10) = 1000
  /\ ScoreAdd((GAME_HEIGHT * Unit * 5) \div 10) = 100
  /\ ScoreAdd((GAME_HEIGHT * Unit * 9) \div 10) = 10
  /\ \A k \in 0 .. (2 * GAME_HEIGHT) :
       ScoreAdd((k * Unit) \div 2) = C4_Award((k * Unit) \div 2)
  /\ [][C4_CatchCompletes =>
          s_game'.score = s_game.score + C4_Award(s_game'.pyoro.tongue.y)]_vars

\* a catch has just completed and was scored
C4_Witness ==
  /\ last.op = "tick"
  /\ ~s_game.pyoro.tongue.active
  /\ s_game.pyoro.tongue.caught_bean
  /\ s_game.pyoro.tongue.y >= s_game.pyoro.y
  /\ s_game.score > 0

\* C5: the score starts at 0, is never negative, and never decreases except by the
\* reset that starts a new game (Menu -> Playing).
C5_ScoreMonotone ==
  /\ s_game.score = 0
  /\ [][/\ s_game'.score >= 0
        /\ \/ s_game.state = "Menu" /\ s_game'.state = "Playing"
           \/ s_game'.score >= s_game.score]_vars

\* a game in which a bean was caught has ended
C5_Witness == s_game.state = "GameOver" /\ s_game.score > 0

\* C6: at most one tick-timer callback is registered at any time.
C6_OneTimer == timers <= 1

\* C7: Pyoro's x lies in [PYORO_SIZE/2, GAME_WIDTH - PYORO_SIZE/2] = [1, 19] in
\* every reachable state.
C7_XInRange ==
  /\ s_game.pyoro.x >= (PYORO_SIZE * Unit) \div 2
  /\ s_game.pyoro.x <= GAME_WIDTH * Unit - (PYORO_SIZE * Unit) \div 2

\* a step was drained with Pyoro at the right edge, and Pyoro is still there
C7_Witness ==
  /\ last.op = "tick"
  /\ last.cnt > 0
  /\ last.x = GAME_WIDTH * Unit - (PYORO_SIZE * Unit) \div 2
  /\ s_game.pyoro.x = last.x
  /\ s_game.pyoro.direction = 1

\* a column under the footprint of the clamped candidate position x + d * step
\* has no block
C8_Blocked(x, d) ==
  LET cand == IF x + d * PYORO_SINGLE_STEP < Unit THEN Unit
              ELSE IF x + d * PYORO_SINGLE_STEP > 19 * Unit THEN 19 * Unit
              ELSE x + d * PYORO_SINGLE_STEP
  IN \E i \in BlockIdx :
        /\ (cand - Unit) \div Unit <= i
        /\ i <= (cand + Unit) \div Unit
        /\ ~s_game.blocks[i].exists

\* C8: a tick that drains a queued step whose candidate position spans a column
\* without a block leaves x unchanged and still takes one step off the queue.
C8_RejectedStepConsumed ==
  [][(/\ IsTick
      /\ MoveAccepted(Prog)
      /\ ~s_game.game_paused
      /\ s_pending_step_count > 0
      /\ s_pending_step_dir # 0
      /\ C8_Blocked(s_game.pyoro.x, s_pending_step_dir))
       => /\ s_game'.pyoro.x = s_game.pyoro.x
          /\ s_pending_step_count' = s_pending_step_count - 1]_vars

\* a tick has just drained a step towards a missing block: Pyoro did not move and
\* the count went down
C8_Witness ==
  /\ last.op = "tick"
  /\ last.cnt > 0
  /\ s_pending_step_count = last.cnt - 1
  /\ s_game.pyoro.x = last.x
  /\ s_game.state = "Playing"
  /\ ~s_game.pyoro.dead
  /\ C8_Blocked(s_game.pyoro.x, s_game.pyoro.direction)
  /\ s_game.pyoro.x + PYORO_SINGLE_STEP < 19 * Unit

\* C9: an accepted up/down press (single or repeat) against the current facing
\* flips the facing, empties the step queue and changes nothing else.
C9_TurnInPlace ==
  [][\A d \in {-1, 1} :
       (/\ MoveAccepted(Prog)
        /\ last'.op \in (IF d = -1 THEN {"up", "up_repeat"}
                                  ELSE {"down", "down_repeat"})
        /\ s_game.pyoro.direction = -d)
         => /\ s_game' = [s_game EXCEPT !.pyoro.direction = d]
            /\ s_pending_step_count' = 0
            /\ s_pending_step_dir' = 0
            /\ UNCHANGED <<s_frame_count, s_background_index, s_high_scores,
                           s_last_game_score, timers, persist_writes>>]_vars

\* an up press has just turned Pyoro to the left and dropped a non-empty queue
C9_Witness ==
  /\ last.op \in {"up", "up_repeat"}
  /\ last.cnt > 0
  /\ MoveAccepted(Prog)
  /\ s_game.pyoro.direction = -1
  /\ s_game.pyoro.x = last.x
  /\ s_pending_step_count = 0
  /\ s_pending_step_dir = 0

\* C10: x changes on a tick only if the tick found the tongue inactive; the tongue
\* is activated only by a select press, which empties the step queue; a tick that
\* finds the tongue active leaves the queue empty; and while the tongue is active
\* the queue is empty and x does not change.
C10_TongueBlocksSteps ==
  [][/\ (IsTick /\ s_game'.pyoro.x # s_game.pyoro.x) => ~s_game.pyoro.tongue.active
     /\ (~s_game.pyoro.tongue.active /\ s_game'.pyoro.tongue.active) =>
          /\ last'.op = "select"
          /\ s_pending_step_count' = 0
          /\ s_pending_step_dir' = 0
     /\ (IsTick /\ s_game.pyoro.tongue.active) =>
          /\ s_pending_step_count' = 0
          /\ s_pending_step_dir' = 0
     /\ s_game'.pyoro.tongue.active =>
          /\ s_pending_step_count' = 0
          /\ s_pending_step_dir' = 0
     /\ s_game.pyoro.tongue.active => s_game'.pyoro.x = s_game.pyoro.x]_vars

\* a select press has just extended the tongue and dropped a non-empty queue
C10_Witness ==
  /\ last.op = "select"
  /\ last.cnt > 0
  /\ s_game.pyoro.tongue.active
  /\ s_pending_step_count = 0

C12_RepairingWhileActive ==
  s_game.angel.active =>
    s_game.blocks[s_game.angel.target_block_index].is_repairing

\* C12 as amended: while the Angel is active and Descending its target block does
\* not exist and has is_repairing set; while it is active and Ascending the flag
\* is clear (it was cleared on arrival, when the block was restored); and while it
\* is active, in either phase, spawn_angel changes nothing for any block, so no
\* block is chosen as a repair target.
C12_RepairingWhileDescending ==
  /\ (s_game.angel.active /\ ~s_game.angel.going_up) =>
        /\ s_game.blocks[s_game.angel.target_block_index].is_repairing
        /\ ~s_game.blocks[s_game.angel.target_block_index].exists
  /\ (s_game.angel.active /\ s_game.angel.going_up) =>
        ~s_game.blocks[s_game.angel.target_block_index].is_repairing
  /\ s_game.angel.active =>
        \A i \in BlockIdx : spawn_angel(s_game, i) = s_game

\* the Angel has restored its target and is on its way up
C12_Witness ==
  /\ s_game.angel.active
  /\ s_game.angel.going_up
  /\ s_game.angel.y < GAME_HEIGHT * Unit - Unit
  /\ s_game.blocks[s_game.angel.target_block_index].exists

\* C13: a call spawn_angel(i) with i outside 0 .. 19, or with block i existing, or
\* with block i already repairing, or with an Angel already active, leaves the
\* whole program state unchanged; so an active Angel keeps its target.
C13_SpawnAngelNoOp ==
  [][(last'.op = "spawn_angel") =>
       /\ (\/ last'.arg < 0
           \/ last'.arg >= GAME_WIDTH
           \/ s_game.blocks[last'.arg].exists
           \/ s_game.blocks[last'.arg].is_repairing
           \/ s_game.angel.active) => UNCHANGED progvars
       /\ s_game.angel.active =>
            /\ s_game'.angel.active
            /\ s_game'.angel.target_block_index = s_game.angel.target_block_index]_vars

\* spawn_angel was called for a missing block that nobody repairs while the Angel
\* was busy with another block, and the Angel still has its own target
C13_Witness ==
  /\ last.op = "spawn_angel"
  /\ last.arg \in BlockIdx
  /\ ~s_game.blocks[last.arg].exists
  /\ ~s_game.blocks[last.arg].is_repairing
  /\ s_game.angel.active
  /\ s_game.angel.target_block_index # last.arg

\* the table is in descending order with the EMPTY sentinels only at the tail
C14_Sorted ==
  \A i \in 0 .. (NUM_HIGH_SCORES - 2) :
     /\ (s_high_scores[i] = HIGH_SCORE_EMPTY) => (s_high_scores[i + 1] = HIGH_SCORE_EMPTY)
     /\ (s_high_scores[i + 1] # HIGH_SCORE_EMPTY) => (s_high_scores[i] >= s_high_scores[i + 1])

\* the table with no entries
C14_EmptyTable == [i \in 0 .. (NUM_HIGH_SCORES - 1) |-> HIGH_SCORE_EMPTY]

\* the table after the scores 50, 200, 75 were recorded into the empty table
C14_Example ==
  insert_high_score(
    insert_high_score(
      insert_high_score([hs |-> C14_EmptyTable, pw |-> 0], 50), 200), 75).hs

\* C14: the table is always in descending order with EMPTY (-1) only at the tail;
\* recording 50, 200, 75 into the empty table gives [200, 75, 50, EMPTY, ...];
\* recording a score lower than all 10 entries of a full table changes neither the
\* table nor the number of persistence writes; recording a score into a table that
\* has an EMPTY slot or an entry below the score puts the score into one slot, keeps
\* the entries before it, moves the entries after it down by one slot (dropping
\* the last) and writes the table once.
C14_SortedInsert ==
  /\ C14_Example =
       [i \in 0 .. (NUM_HIGH_SCORES - 1) |->
          IF i = 0 THEN 200 ELSE IF i = 1 THEN 75 ELSE IF i = 2 THEN 50
          ELSE HIGH_SCORE_EMPTY]
  /\ []C14_Sorted
  /\ [][(last'.op = "record_score") =>
          /\ (\A i \in 0 .. (NUM_HIGH_SCORES - 1) :
                s_high_scores[i] # HIGH_SCORE_EMPTY /\ last'.arg < s_high_scores[i])
               => UNCHANGED <<s_high_scores, persist_writes>>
          /\ (\E i \in 0 .. (NUM_HIGH_SCORES - 1) :
                s_high_scores[i] = HIGH_SCORE_EMPTY \/ last'.arg > s_high_scores[i])
               => /\ persist_writes' = persist_writes + 1
                  /\ \E k \in 0 .. (NUM_HIGH_SCORES - 1) :
                        /\ s_high_scores'[k] = last'.arg
                        /\ \A i \in 0 .. (NUM_HIGH_SCORES - 1) :
                             /\ i < k => s_high_scores'[i] = s_high_scores[i]
                             /\ i > k => s_high_scores'[i] = s_high_scores[i - 1]]_vars

\* a score lower than all 10 entries of a full table has just been recorded, and
\* nothing was written for it
C14_Witness ==
  /\ last.op = "record_score"
  /\ s_high_scores[NUM_HIGH_SCORES - 1] # HIGH_SCORE_EMPTY
  /\ last.arg < s_high_scores[NUM_HIGH_SCORES - 1]
  /\ persist_writes = last.pw

\* bean i and the character overlap: their centres are less than 2 apart on both
\* axes (both are 2 wide and 2 high)
C15_Touches(g, i) ==
  /\ g.beans[i].x - g.pyoro.x < 2 * Unit
  /\ g.pyoro.x - g.beans[i].x < 2 * Unit
  /\ g.beans[i].y - g.pyoro.y < 2 * Unit
  /\ g.pyoro.y - g.beans[i].y < 2 * Unit

\* the game after the bean loop has handled bean i alone with this tick's dt
C15_Handled(i) == BeanStep(s_game, i, FMul(DeltaTime, s_game.game_speed)).g

\* another bean than i overlaps the character
C15_OtherTouches(g, i) == \E j \in BeanIdx : j # i /\ g.beans[j].active /\ C15_Touches(g, j)

\* C15: when the bean loop moves an active, uncaught bean to y >= 19 and the bean
\* does not overlap the character, the bean is inactive afterwards, the block of
\* column floor(x) does not exist, and the score and the dead flag are as before.
\* On the tick as a whole the same holds, except for what other events of the same
\* tick do: a completed catch adds its award, another bean may kill the character,
\* and an Angel arriving at that column restores the block.
C15_LandingDestroysBlock ==
  /\ [](\A i \in BeanIdx :
          (/\ s_game.beans[i].active
           /\ ~s_game.beans[i].caught
           /\ C15_Handled(i).beans[i].y >= (GAME_HEIGHT - 1) * Unit
           /\ ~C15_Touches(C15_Handled(i), i))
            => /\ ~C15_Handled(i).beans[i].active
               /\ ~C15_Handled(i).blocks[s_game.beans[i].x \div Unit].exists
               /\ C15_Handled(i).score = s_game.score
               /\ C15_Handled(i).pyoro.dead = s_game.pyoro.dead)
  /\ [][\A i \in BeanIdx :
          (/\ IsTick
           /\ s_game.state = "Playing"
           /\ ~s_game.pyoro.dead
           /\ s_game.beans[i].active
           /\ ~s_game.beans[i].caught
           /\ s_game.beans[i].y < (GAME_HEIGHT - 1) * Unit
           /\ s_game'.beans[i].y >= (GAME_HEIGHT - 1) * Unit
           /\ ~C15_Touches(s_game', i))
            => /\ ~s_game'.beans[i].active
               /\ \/ ~s_game'.blocks[s_game.beans[i].x \div Unit].exists
                  \/ /\ s_game.angel.active
                     /\ s_game'.angel.going_up
                     /\ ~s_game.angel.going_up
                     /\ s_game.angel.target_block_index = s_game.beans[i].x \div Unit
               /\ s_game'.score = s_game.score \/ C4_CatchCompletes
               /\ s_game'.pyoro.dead => C15_OtherTouches(s_game', i)]_vars

\* a bean has just come to rest beside the living character: it is inactive at
\* ground level, less than one tick's fall below the threshold, and the block of
\* its column is gone
C15_Witness ==
  /\ last.op = "tick"
  /\ s_game.state = "Playing"
  /\ ~s_game.pyoro.dead
  /\ \E i \in BeanIdx :
       /\ ~s_game.beans[i].active
       /\ ~s_game.beans[i].caught
       /\ s_game.beans[i].y >= (GAME_HEIGHT - 1) * Unit
       /\ s_game.beans[i].y < (GAME_HEIGHT - 1) * Unit + Unit \div 10
       /\ ~C15_Touches(s_game, i)
       /\ ~s_game.blocks[s_game.beans[i].x \div Unit].exists

\* C16: a select press in Menu leaves state = Playing, score 0, game_speed 1.0,
\* both timers 0, all 20 blocks existing and none repairing, all 5 bean slots
\* inactive, the Angel and the tongue inactive, the character alive at the centre
\* (x = 10) facing right, and the step queue empty.
C16_SelectInMenuResets ==
  [][(s_game.state = "Menu" /\ last'.op = "select") =>
       /\ s_game'.state = "Playing"
       /\ s_game'.score = 0
       /\ s_game'.game_speed = Unit
       /\ s_game'.bean_spawn_timer = 0
       /\ s_game'.death_timer = 0
       /\ \A i \in BlockIdx :
            s_game'.blocks[i].exists /\ ~s_game'.blocks[i].is_repairing
       /\ \A i \in BeanIdx : ~s_game'.beans[i].active
       /\ ~s_game'.angel.active
       /\ ~s_game'.pyoro.tongue.active
       /\ ~s_game'.pyoro.dead
       /\ s_game'.pyoro.x = (GAME_WIDTH \div 2) * Unit
       /\ s_game'.pyoro.direction = 1
       /\ s_pending_step_count' = 0
       /\ s_pending_step_dir' = 0]_vars

\* a second game has just been started after a game that ended with points, a dead
\* character and steps still queued
C16_Witness ==
  /\ last.op = "select"
  /\ s_game.state = "Playing"
  /\ timers = 2
  /\ s_last_game_score > 0
  /\ last.cnt > 0
  /\ s_pending_step_count = 0
  /\ s_game.score = 0
  /\ ~s_game.pyoro.dead
  /\ s_game.game_speed = Unit

\* C17: a select press in Playing with the character alive and the tongue inactive
\* leaves the tongue active, extending (not going back), with no caught bean, its
\* direction the character's facing and its tip at (x + 3.1 * facing, y - 1.9),
\* empties the step queue and changes nothing else; a select press in Playing with
\* the tongue active or the character dead changes nothing.
C17_SelectExtendsTongue ==
  [][(s_game.state = "Playing" /\ last'.op = "select") =>
       IF ~s_game.pyoro.dead /\ ~s_game.pyoro.tongue.active
       THEN /\ s_game' =
                 [s_game EXCEPT !.pyoro.tongue =
                    [active |-> TRUE,
                     going_back |-> FALSE,
                     caught_bean |-> FALSE,
                     direction |-> s_game.pyoro.direction,
                     x |-> s_game.pyoro.x + s_game.pyoro.direction * ((31 * Unit) \div 10),
                     y |-> s_game.pyoro.y - (19 * Unit) \div 10]]
            /\ s_pending_step_count' = 0
            /\ s_pending_step_dir' = 0
            /\ UNCHANGED <<s_frame_count, s_background_index, s_high_scores,
                           s_last_game_score, timers, persist_writes>>
       ELSE UNCHANGED progvars]_vars

\* a select press has just extended the tongue of a character with steps queued:
\* the tip is at its start and the queue is empty
C17_Witness ==
  /\ last.op = "select"
  /\ last.cnt > 0
  /\ s_game.state = "Playing"
  /\ ~s_game.pyoro.dead
  /\ s_game.pyoro.tongue.active
  /\ ~s_game.pyoro.tongue.going_back
  /\ s_game.pyoro.tongue.direction = s_game.pyoro.direction
  /\ s_game.pyoro.tongue.y = s_game.pyoro.y - (19 * Unit) \div 10
  /\ s_pending_step_count = 0

\* an up/down press (op) towards new_dir, which the character already faces
C18_SameWay(op, new_dir) ==
  /\ MoveAccepted(Prog)
  /\ last'.op = op
  /\ s_game.pyoro.direction = new_dir

\* what C18 says of such a press that queues k steps
C18_Queued(new_dir, k) ==
  /\ s_game' = s_game
  /\ s_pending_step_dir' = new_dir
  /\ s_pending_step_count' =
        IF s_pending_step_count + k < 60 THEN s_pending_step_count + k ELSE 60

\* C18: an accepted up/down press in the direction the character faces keeps the
\* facing (and the rest of the game), sets the pending direction to that direction
\* and makes the pending count min(count + k, 60), with k = 1 for a single press
\* and k = 4 for a repeat press.
C18_SameDirectionEnqueues ==
  [][/\ C18_SameWay("up", -1) => C18_Queued(-1, 1)
     /\ C18_SameWay("down", 1) => C18_Queued(1, 1)
     /\ C18_SameWay("up_repeat", -1) => C18_Queued(-1, 4)
     /\ C18_SameWay("down_repeat", 1) => C18_Queued(1, 4)]_vars

\* a repeat press to the left has just raised a queue of 57 to 59 steps to the
\* maximum, short of 4 more
C18_Witness ==
  /\ last.op = "up_repeat"
  /\ last.cnt > 56
  /\ last.cnt < 60
  /\ s_pending_step_count = 60
  /\ s_pending_step_dir = -1
  /\ s_game.pyoro.direction = -1

\* the bean slots that are inactive
C19_Free(g) == {i \in BeanIdx : ~g.beans[i].active}

\* what C19 says of one call of spawn_bean on the game g that returns r
C19_Claimed(g, r) ==
  IF C19_Free(g) = {}
  THEN r = g
  ELSE \E k \in C19_Free(g) :
         /\ \A j \in C19_Free(g) : k <= j
         /\ r.beans[k].active
         /\ ~r.beans[k].caught
         /\ r.beans[k].y = 0
         /\ r.beans[k].x >= 0
         /\ r.beans[k].x < GAME_WIDTH * Unit
         /\ r = [g EXCEPT !.beans[k] = r.beans[k]]

\* slot i holds a bean spawned by this step
C19_Spawned(i) ==
  /\ s_game'.beans[i].active
  /\ s_game'.beans[i].y = 0
  /\ ~(s_game.beans[i].active /\ s_game.beans[i].y = 0)

\* this tick's spawn timer reaches the threshold BEAN_SPAWN_FREQUENCY / game_speed
C19_Due ==
  s_game.bean_spawn_timer + FMul(DeltaTime, s_game.game_speed)
    >= (BEAN_SPAWN_FREQUENCY * Unit * (Unit \div 10)) \div (s_game'.game_speed \div 10)

\* C19: spawn_bean puts the new bean into the lowest-index inactive slot, at height
\* 0 in a column 0..19, uncaught, and changes nothing else; with all 5 slots active
\* it changes nothing.  On a tick of a living game at most one slot receives a new
\* bean, and none unless the spawn timer is due; a slot that stays active and
\* uncaught keeps its bean (column, speed, type); and when the timer is due it is 0
\* after the tick, also when every slot was taken and the spawn was dropped.
C19_SpawnBean ==
  /\ [](\A rx \in 0 .. (GAME_WIDTH - 1), rs \in {0, 99}, rp \in {0, 4} :
          C19_Claimed(s_game, spawn_bean(s_game, rx, rs, rp)))
  /\ [][(IsTick /\ s_game.state = "Playing" /\ ~s_game.pyoro.dead) =>
          /\ Cardinality({i \in BeanIdx : C19_Spawned(i)}) <= 1
          /\ (\E i \in BeanIdx : C19_Spawned(i)) => C19_Due
          /\ \A i \in BeanIdx :
               (/\ s_game.beans[i].active
                /\ s_game'.beans[i].active
                /\ ~s_game'.beans[i].caught
                /\ ~C19_Spawned(i))
                 => /\ s_game'.beans[i].x = s_game.beans[i].x
                    /\ s_game'.beans[i].speed = s_game.beans[i].speed
                    /\ s_game'.beans[i].type = s_game.beans[i].type
          /\ s_game'.bean_spawn_timer =
               IF C19_Due THEN 0
               ELSE s_game.bean_spawn_timer + FMul(DeltaTime, s_game.game_speed)]_vars

\* a tick has just dropped a spawn: the timer is back at 0 and all five slots hold
\* beans that are already falling
C19_Witness ==
  /\ last.op = "tick"
  /\ s_game.state = "Playing"
  /\ ~s_game.pyoro.dead
  /\ s_frame_count > 0
  /\ s_game.bean_spawn_timer = 0
  /\ \A i \in BeanIdx : s_game.beans[i].active /\ s_game.beans[i].y > 0

\* the number of entries of the table that are at least the score
C20_AtLeast(score) ==
  Cardinality({i \in 0 .. (NUM_HIGH_SCORES - 1) :
                 s_high_scores[i] # HIGH_SCORE_EMPTY /\ s_high_scores[i] >= score})

\* C20: a recorded score that equals one or more entries goes into the slot after
\* all of them (the slot after every entry that is at least the score), the
\* entries before that slot stay and those from it on move down; when the table is
\* full and its lowest entry equals the score there is no such slot, and neither
\* the table nor the number of persistence writes changes.
C20_TiesKeepEarlier ==
  [][(/\ last'.op = "record_score"
      /\ \E i \in 0 .. (NUM_HIGH_SCORES - 1) : s_high_scores[i] = last'.arg) =>
       IF C20_AtLeast(last'.arg) = NUM_HIGH_SCORES
       THEN /\ insert_at(s_high_scores, last'.arg) = -1
            /\ UNCHANGED <<s_high_scores, persist_writes>>
       ELSE /\ insert_at(s_high_scores, last'.arg) = C20_AtLeast(last'.arg)
            /\ persist_writes' = persist_writes + 1
            /\ \A i \in 0 .. (NUM_HIGH_SCORES - 1) :
                 s_high_scores'[i] =
                   IF i < C20_AtLeast(last'.arg) THEN s_high_scores[i]
                   ELSE IF i = C20_AtLeast(last'.arg) THEN last'.arg
                   ELSE s_high_scores[i - 1]]_vars

\* a score equal to the lowest entry of a full table has just been recorded: the
\* table holds an entry above it, and nothing was written
C20_Witness ==
  /\ last.op = "record_score"
  /\ s_high_scores[NUM_HIGH_SCORES - 1] = last.arg
  /\ s_high_scores[0] > last.arg
  /\ persist_writes = last.pw

\* the step is an up or down press, single or repeating
C21_MovePress == last'.op \in {"up", "down", "up_repeat", "down_repeat"}

\* C21: an up or down press (single or repeating) changes nothing - not the facing,
\* not the position, not the step queue, nor anything else of the program - when
\* the state is not Playing, when Pyoro is dead, or when the tongue is active.
C21_MovePressIgnored ==
  [][(/\ C21_MovePress
      /\ \/ s_game.state # "Playing"
         \/ s_game.pyoro.dead
         \/ s_game.pyoro.tongue.active) =>
       UNCHANGED progvars]_vars

\* a repeating up press has just reached a dead Pyoro that faces right with steps
\* still queued: the queue and the facing are as they were
C21_Witness ==
  /\ last.op = "up_repeat"
  /\ s_game.state = "Playing"
  /\ s_game.pyoro.dead
  /\ s_game.pyoro.direction = 1
  /\ last.cnt > 0
  /\ s_pending_step_count = last.cnt
  /\ s_pending_step_dir = 1

\* C22: while Pyoro is dead and the state is Playing, a tick changes only the death
\* timer and, when the timer expires, the game state, the high-score table and the
\* last score with its persistence write; game_speed, Pyoro's position and facing,
\* the tongue, the beans, the blocks, the Angel, the score, the spawn timer, the
\* step queue, the frame counter and the background are frozen.  Every press
\* (select, up, down, single or repeating) changes nothing.
C22_DeadFreezes ==
  [][(s_game.state = "Playing" /\ s_game.pyoro.dead) =>
       IF IsTick
       THEN /\ s_game' = [s_game EXCEPT !.death_timer = s_game.death_timer - DeltaTime,
                                        !.state = s_game'.state]
            /\ UNCHANGED <<s_pending_step_dir, s_pending_step_count, s_frame_count,
                           s_background_index, timers>>
            /\ IF s_game.death_timer - DeltaTime <= 0
               THEN s_game'.state = "GameOver"
               ELSE /\ s_game'.state = "Playing"
                    /\ UNCHANGED <<s_high_scores, s_last_game_score, persist_writes>>
       ELSE UNCHANGED progvars]_vars

\* a tick has just run down the death timer of a dead Pyoro: beans are in the air,
\* steps are queued and the score is above zero, all of them as the death left them
C22_Witness ==
  /\ last.op = "tick"
  /\ s_game.state = "Playing"
  /\ s_game.pyoro.dead
  /\ s_game.death_timer < DEATH_DELAY * Unit
  /\ s_game.score > 0
  /\ s_pending_step_count > 0
  /\ \E i \in BeanIdx : s_game.beans[i].active /\ s_game.beans[i].y > 0

\* C23: a tick drains at most one queued step.  On a tick in Playing with Pyoro
\* alive, the tongue inactive and n > 0 steps pending, the count becomes n - 1, the
\* direction becomes None when the count reaches 0 and stays otherwise, and x moves
\* by at most PYORO_SINGLE_STEP (0.25) and only in the queued direction; on a tick
\* with an empty queue x does not change.
C23_OneStepPerTick ==
  [][IsTick =>
       /\ (/\ s_game.state = "Playing"
           /\ ~s_game.pyoro.dead
           /\ ~s_game.pyoro.tongue.active
           /\ s_pending_step_count > 0) =>
            /\ s_pending_step_count' = s_pending_step_count - 1
            /\ s_pending_step_dir' =
                 IF s_pending_step_count' = 0 THEN 0 ELSE s_pending_step_dir
            /\ s_pending_step_dir \in {-1, 1}
            /\ (s_game'.pyoro.x - s_game.pyoro.x) * s_pending_step_dir >= 0
            /\ (s_game'.pyoro.x - s_game.pyoro.x) * s_pending_step_dir
                 <= PYORO_SINGLE_STEP
       /\ s_pending_step_count = 0 =>
            /\ s_game'.pyoro.x = s_game.pyoro.x
            /\ s_pending_step_count' = 0]_vars

\* a tick has just taken one step of a queue of eight to the left: seven remain in
\* the same direction and Pyoro stands 0.25 further left
C23_Witness ==
  /\ last.op = "tick"
  /\ s_game.state = "Playing"
  /\ ~s_game.pyoro.dead
  /\ last.cnt = 2 * REPEAT_STEPS
  /\ s_pending_step_count = last.cnt - 1
  /\ s_pending_step_dir = -1
  /\ s_game.pyoro.x = last.x - PYORO_SINGLE_STEP

\* the tongue is out and has left the grid sideways or through the top
C24_Out(t) == t.x < 0 \/ t.x > GAME_WIDTH * Unit \/ t.y < 0

\* the beans, active and uncaught before the tick, that the moved tip overlaps
C24_Hit ==
  {i \in BeanIdx :
     /\ s_game.beans[i].active
     /\ ~s_game.beans[i].caught
     /\ s_game'.pyoro.tongue.x - s_game.beans[i].x < ((TONGUE_WIDTH + BEAN_SIZE) * Unit) \div 2
     /\ s_game.beans[i].x - s_game'.pyoro.tongue.x < ((TONGUE_WIDTH + BEAN_SIZE) * Unit) \div 2
     /\ s_game'.pyoro.tongue.y - s_game.beans[i].y < ((TONGUE_WIDTH + BEAN_SIZE) * Unit) \div 2
     /\ s_game.beans[i].y - s_game'.pyoro.tongue.y < ((TONGUE_WIDTH + BEAN_SIZE) * Unit) \div 2}

\* the safety half of C24, as a predicate on one step
C24_Step ==
  LET t == s_game.pyoro.tongue
      u == s_game'.pyoro.tongue
  IN /\ (~t.active /\ u.active) =>
          /\ last'.op = "select"
          /\ ~u.going_back
          /\ ~u.caught_bean
     /\ (t.active /\ ~t.going_back) =>
          /\ u.active
          /\ ~IsTick => u = t
          /\ IsTick =>
               /\ u.going_back <=> (C24_Hit # {} \/ C24_Out(u))
               /\ u.caught_bean <=> C24_Hit # {}
               /\ \A i \in BeanIdx :
                    s_game.beans[i].active =>
                      (s_game'.beans[i].caught <=>
                         \/ s_game.beans[i].caught
                         \/ i \in C24_Hit /\ \A j \in C24_Hit : i <= j)
     /\ (t.active /\ t.going_back) =>
          /\ u.active => u.going_back
          /\ ~u.active => IsTick
          /\ u.caught_bean = t.caught_bean
          /\ ~IsTick => u = t

\* C24: the tongue goes Inactive -> Extending -> Retracting -> Inactive and in no
\* other order.  It becomes active only by a select press, Extending.  On a tick
\* Extending turns into Retracting exactly when the moved tip overlaps an active
\* uncaught bean - the lowest-index such bean is marked caught, and no other - or
\* when the tip is left of the grid, right of it or above it; it never becomes
\* inactive from Extending.  Retracting never returns to Extending and ends only on
\* a tick.  Under the fairness of the tick an active tongue always becomes
\* inactive again.
C24_TongueCycle ==
  /\ [][C24_Step]_vars
  /\ (s_game.pyoro.tongue.active ~> ~s_game.pyoro.tongue.active)

\* a tick has just made the extending tongue catch a bean: it retracts, with the
\* bean marked caught, and the tip is inside the grid
C24_Witness ==
  /\ last.op = "tick"
  /\ s_game.pyoro.tongue.active
  /\ s_game.pyoro.tongue.going_back
  /\ s_game.pyoro.tongue.caught_bean
  /\ ~C24_Out(s_game.pyoro.tongue)
  /\ \E i \in BeanIdx : s_game.beans[i].active /\ s_game.beans[i].caught

\* the blocks that are destroyed and not being repaired
C25_Free == {i \in BlockIdx : ~s_game.blocks[i].exists /\ ~s_game.blocks[i].is_repairing}

\* the bean whose catch this tick completes is Pink
C25_PinkCatch ==
  /\ C4_CatchCompletes
  /\ s_game.beans[CaughtBean(s_game)].type = "Pink"

C26_Flight == ANGEL_SPEED * FMul(DeltaTime, s_game.game_speed)

\* the safety half of C26, as a predicate on one step of a game in play
C26_Step ==
  LET a == s_game.angel
      b == s_game'.angel
      running == IsTick /\ ~s_game.pyoro.dead
  IN /\ (~a.active /\ b.active) => ~b.going_up
     /\ (a.active /\ ~running) => b = a
     /\ (a.active /\ ~a.going_up /\ running) =>
          /\ b.active
          /\ b.target_block_index = a.target_block_index
          /\ b.y = a.y + C26_Flight
          /\ b.going_up <=> b.y >= GAME_HEIGHT * Unit - Unit
          /\ b.going_up =>
               /\ s_game'.blocks[a.target_block_index].exists
               /\ ~s_game'.blocks[a.target_block_index].is_repairing
          /\ ~b.going_up =>
               /\ ~s_game'.blocks[a.target_block_index].exists
               /\ s_game'.blocks[a.target_block_index].is_repairing
     /\ (a.active /\ a.going_up /\ running) =>
          /\ b.y = a.y - C26_Flight
          /\ b.active <=> b.y >= 0
          /\ b.going_up
          /\ b.target_block_index = a.target_block_index

\* C26: an active Angel goes Descending -> Ascending -> inactive and never back.  It
\* starts Descending; on each tick of a living game it descends by ANGEL_SPEED * dt,
\* and on the tick its height reaches GAME_HEIGHT - 1 it sets its target block to
\* exists = true, is_repairing = false and becomes Ascending; Ascending it rises by
\* ANGEL_SPEED * dt per tick and is deactivated on the tick its height falls below
\* 0; presses do not touch it.  Under the fairness of the tick, and unless Pyoro
\* dies, a descending Angel reaches the Ascending phase with its block restored and
\* every active Angel becomes inactive.
C26_AngelCycle ==
  /\ [][s_game.state = "Playing" => C26_Step]_vars
  /\ ((s_game.angel.active /\ ~s_game.angel.going_up)
        ~> \/ s_game.pyoro.dead
           \/ /\ s_game.angel.active
              /\ s_game.angel.going_up
              /\ s_game.blocks[s_game.angel.target_block_index].exists)
  /\ (s_game.angel.active ~> (s_game.pyoro.dead \/ ~s_game.angel.active))

\* a tick has just brought the Angel to the ground: it has turned to Ascending
\* without rising yet, and its target block exists and is not repairing
C26_Witness ==
  /\ last.op = "tick"
  /\ s_game.angel.active
  /\ s_game.angel.going_up
  /\ s_game.angel.y >= GAME_HEIGHT * Unit - Unit
  /\ s_game.blocks[s_game.angel.target_block_index].exists
  /\ ~s_game.blocks[s_game.angel.target_block_index].is_repairing
  /\ ~s_game.pyoro.dead

\* some block of the game g is destroyed and not being repaired
C27_Open(g) == \E b \in BlockIdx : ~g.blocks[b].exists /\ ~g.blocks[b].is_repairing

\* C27: a bean is given the Pink type only if, at the moment it is spawned, some
\* block is destroyed and not repairing: for every outcome of the three random
\* draws spawn_bean makes the new bean Green when every block exists or is being
\* repaired, and a bean that a tick has spawned is Pink only if such a block exists
\* at the end of that tick (the spawn is the last stage of the tick).
C27_PinkNeedsOpenBlock ==
  /\ [](~C27_Open(s_game) =>
          \A rx \in {0, GAME_WIDTH - 1}, rp \in 0 .. 4 :
            \A r \in {spawn_bean(s_game, rx, 99, rp)} :
              \A i \in BeanIdx :
                (~s_game.beans[i].active /\ r.beans[i].active)
                  => r.beans[i].type = "Green")
  /\ [][IsTick =>
          \A i \in BeanIdx :
            (C19_Spawned(i) /\ s_game'.beans[i].type = "Pink") => C27_Open(s_game')]_vars

\* a tick has just spawned a Green bean although the random draw favours Pink: the
\* only missing block is the target of the descending Angel
C27_Witness ==
  /\ last.op = "tick"
  /\ s_game.angel.active
  /\ ~s_game.angel.going_up
  /\ ~s_game.blocks[s_game.angel.target_block_index].exists
  /\ ~C27_Open(s_game)
  /\ s_game.bean_spawn_timer = 0
  /\ \E i \in BeanIdx :
       /\ s_game.beans[i].active
       /\ s_game.beans[i].y = 0
       /\ s_game.beans[i].type = "Green"

\* the beans that this tick has moved and that overlap the character after it
C28_Hit ==
  {i \in BeanIdx :
     /\ s_game.beans[i].active
     /\ s_game'.beans[i].active
     /\ ~s_game'.beans[i].caught
     /\ s_game'.beans[i].y > s_game.beans[i].y
     /\ C15_Touches(s_game', i)}

\* C28: the bean/character collision test is made only while the character is alive
\* and the tongue is not active: on the tick of a death the tongue is inactive when
\* the tick ends, and a dead character's tongue is never active.  The bean loop
\* stops at the hitting bean, the lowest-index moved bean that overlaps the
\* character: that bean stays active (it is not grounded), the beans in lower slots
\* have been moved, and every bean in a higher slot is exactly as it was, neither
\* moved nor grounded, and no block is destroyed by it.
C28_HitStopsBeanLoop ==
  /\ [](s_game.pyoro.dead => ~s_game.pyoro.tongue.active)
  /\ [][(~s_game.pyoro.dead /\ s_game'.pyoro.dead) =>
          /\ IsTick
          /\ ~s_game'.pyoro.tongue.active
          /\ C28_Hit # {}
          /\ \A h \in C28_Hit :
               (\A k \in C28_Hit : h <= k) =>
                 /\ s_game'.beans[h].active
                 /\ \A j \in BeanIdx :
                      /\ (j > h /\ s_game.beans[j].active) =>
                           s_game'.beans[j] = s_game.beans[j]
                      /\ (j < h /\ s_game.beans[j].active /\ ~s_game'.beans[j].caught) =>
                           s_game'.beans[j].y > s_game.beans[j].y]_vars

\* a tick has just killed the character: the hitting bean is active and overlaps
\* it, and beans are in the air in higher slots
C28_Witness ==
  /\ last.op = "tick"
  /\ s_game.state = "Playing"
  /\ s_game.pyoro.dead
  /\ s_game.death_timer = DEATH_DELAY * Unit
  /\ ~s_game.pyoro.tongue.active
  /\ \E h \in BeanIdx :
       /\ s_game.beans[h].active
       /\ C15_Touches(s_game, h)
       /\ \E j \in BeanIdx :
            /\ j > h
            /\ s_game.beans[j].active
            /\ s_game.beans[j].y > 0
            /\ ~C15_Touches(s_game, j)

C30_Stated(i) ==
  FMul((BEAN_SPEED_TENTHS * s_game.beans[i].speed) \div 10,
       FMul(DeltaTime, s_game.game_speed))

\* C30: on each tick of a living game every active bean that is uncaught when the
\* bean update runs has its height increased by speed_factor * BEAN_SPEED * dt',
\* where dt' = delta_time * game_speed is the scaled delta of the tick (game_speed
\* enters once), up to two units of the fixed-point resolution; a slot that is
\* inactive before and after the tick is not changed.  The ticks on which the bean
\* loop is left early (a death) are left out.
C30_BeanDisplacement ==
  [][(IsTick /\ s_game.state = "Playing" /\ ~s_game.pyoro.dead /\ ~s_game'.pyoro.dead) =>
       \A i \in BeanIdx :
         /\ (/\ s_game.beans[i].active
             /\ s_game'.beans[i].active
             /\ ~s_game'.beans[i].caught
             /\ s_game'.beans[i].y > 0) =>
              /\ s_game'.beans[i].y - s_game.beans[i].y >= C30_Stated(i) - 2
              /\ s_game'.beans[i].y - s_game.beans[i].y <= C30_Stated(i) + 2
         /\ (~s_game.beans[i].active /\ ~s_game'.beans[i].active) =>
              s_game'.beans[i] = s_game.beans[i]]_vars

\* C31: game_speed is 1.0 right after a reset (the select press that takes Menu to
\* Playing) and at least 1.0 in every state; it grows strictly on every tick
\* processed in Playing with Pyoro alive, by dt' * SPEED_ACCELERATION; and every
\* other step - a press that is not a reset, a tick while Pyoro is dead, a tick in
\* Menu or GameOver - leaves it unchanged, so it never decreases between two
\* resets.
C31_GameSpeed ==
  /\ [](s_game.game_speed >= Unit)
  /\ [][IF last'.op = "select" /\ s_game.state = "Menu"
        THEN s_game'.game_speed = Unit
        ELSE IF IsTick /\ s_game.state = "Playing" /\ ~s_game.pyoro.dead
             THEN /\ s_game'.game_speed > s_game.game_speed
                  /\ s_game'.game_speed =
                       s_game.game_speed
                         + FMul(DeltaTime, s_game.game_speed) \div SPEED_ACCELERATION_INV
             ELSE s_game'.game_speed = s_game.game_speed]_vars

\* the select press that starts a second game has just put game_speed back to 1.0
C31_Witness ==
  /\ last.op = "select"
  /\ s_game.state = "Playing"
  /\ s_game.game_speed = Unit
  /\ s_frame_count > 0
  /\ s_last_game_score > 0
  /\ s_high_scores[0] # HIGH_SCORE_EMPTY

\* bean b, uncaught, lands on this step: it was active within one unit of the
\* ground line and is out of play afterwards at or below that line, or its slot
\* already holds the bean spawned on the same tick
C32_Lands(b) ==
  /\ s_game.beans[b].active
  /\ ~s_game.beans[b].caught
  /\ s_game.beans[b].y >= GAME_HEIGHT * Unit - 2 * Unit
  /\ IF s_game'.beans[b].active
     THEN s_game'.beans[b].y = 0
     ELSE /\ s_game'.beans[b].y >= GAME_HEIGHT * Unit - Unit
          /\ ~s_game'.beans[b].caught

\* the step is the reset of a new game: a select press in Menu
C32_Reset == last'.op = "select" /\ s_game.state = "Menu"

C33_AlwaysTen ==
  /\ [](s_game.score % 10 = 0)
  /\ [](s_game.pyoro.y = GAME_HEIGHT * Unit - 2 * Unit)
  /\ [][/\ C4_CatchCompletes =>
             /\ s_game'.pyoro.tongue.y >= s_game.pyoro.y
             /\ s_game'.pyoro.tongue.y >= (GAME_HEIGHT * Unit * 8) \div 10
             /\ s_game'.score = s_game.score + 10
        /\ s_game'.score # s_game.score =>
             \/ C4_CatchCompletes
             \/ last'.op = "select" /\ s_game.state = "Menu"]_vars

\* a tick has just completed the second catch of a game: the score is 20
C33_Witness ==
  /\ last.op = "tick"
  /\ ~s_game.pyoro.tongue.active
  /\ s_game.pyoro.tongue.caught_bean
  /\ s_game.pyoro.tongue.y >= s_game.pyoro.y
  /\ s_game.score = 20
  /\ s_game.bean_spawn_timer > 0

\* the block columns under the character's footprint: floor(x - 1) .. floor(x + 1)
\* within the grid
C34_Footprint(g) ==
  {i \in BlockIdx : /\ i >= ToInt(g.pyoro.x - (PYORO_SIZE * Unit) \div 2)
                    /\ i <= ToInt(g.pyoro.x + (PYORO_SIZE * Unit) \div 2)}

\* every block under the character's footprint exists
C34_Stands(g) == \A i \in C34_Footprint(g) : g.blocks[i].exists

C35_Caught(g) == {b \in BeanIdx : g.beans[b].active /\ g.beans[b].caught}

\* C35: at most one bean is active and caught, and there is one exactly when the
\* tongue is active with its caught_bean flag set.  A bean that is caught when a
\* tick ends has not been moved by the bean loop: on the tick of the catch it is
\* where it was, on later ticks it is at the tongue's tip; the character is alive.
\* A caught bean stops being caught only on the tick on which the tongue becomes
\* inactive: it is eaten (the score grows by at least 10), not grounded, and every
\* block destroyed on a tick with a caught bean is destroyed by an uncaught bean
\* landing in its column.
C35_OneCaughtBean ==
  /\ [](/\ Cardinality(C35_Caught(s_game)) <= 1
        /\ (C35_Caught(s_game) # {}) <=>
             (s_game.pyoro.tongue.active /\ s_game.pyoro.tongue.caught_bean))
  /\ [][/\ \A b \in C35_Caught(s_game') :
             /\ ~s_game'.pyoro.dead
             /\ b \notin C35_Caught(s_game) =>
                  /\ IsTick
                  /\ s_game.beans[b].active
                  /\ s_game'.beans[b].x = s_game.beans[b].x
                  /\ s_game'.beans[b].y = s_game.beans[b].y
             /\ b \in C35_Caught(s_game) =>
                  \/ s_game' = s_game
                  \/ /\ IsTick
                     /\ s_game'.beans[b].x = s_game'.pyoro.tongue.x
                     /\ s_game'.beans[b].y = s_game'.pyoro.tongue.y
        /\ \A b \in C35_Caught(s_game) \ C35_Caught(s_game') :
             /\ IsTick
             /\ s_game.pyoro.tongue.active
             /\ ~s_game'.pyoro.tongue.active
             /\ s_game'.score >= s_game.score + 10
             /\ ~s_game'.pyoro.dead
        /\ (C35_Caught(s_game) # {} \/ C35_Caught(s_game') # {}) =>
             \A i \in BlockIdx :
               (s_game.blocks[i].exists /\ ~s_game'.blocks[i].exists) =>
                 \E b \in BeanIdx : C32_Lands(b) /\ ToInt(s_game.beans[b].x) = i]_vars

\* a tick has just completed a catch: the tongue is inactive, the score is
\* positive and no bean is caught, while other beans are in the air
C35_Witness ==
  /\ last.op = "tick"
  /\ s_game.state = "Playing"
  /\ ~s_game.pyoro.tongue.active
  /\ s_game.pyoro.tongue.caught_bean
  /\ s_game.score > 0
  /\ C35_Caught(s_game) = {}
  /\ \E b \in BeanIdx : s_game.beans[b].active

\* the blocks whose is_repairing flag is set
C36_Repairing(g) == {i \in BlockIdx : g.blocks[i].is_repairing}

\* C36: a block has is_repairing set only while the Angel is active, descending
\* and targeting that block, and such a block does not exist; so at most one block
\* is repairing and no block is both existing and repairing.  The flag is set only
\* by the tick that spawns the Angel and cleared only by the tick on which the
\* Angel arrives or by the reset of a new game.
C36_RepairingIsAngelTarget ==
  /\ [](/\ \A i \in C36_Repairing(s_game) :
             /\ s_game.angel.active
             /\ ~s_game.angel.going_up
             /\ s_game.angel.target_block_index = i
             /\ ~s_game.blocks[i].exists
        /\ Cardinality(C36_Repairing(s_game)) <= 1)
  /\ [][/\ \A i \in C36_Repairing(s_game') \ C36_Repairing(s_game) :
             /\ IsTick
             /\ ~s_game.angel.active
             /\ s_game'.angel.active
        /\ \A i \in C36_Repairing(s_game) \ C36_Repairing(s_game') :
             \/ C32_Reset
             \/ /\ IsTick
                /\ s_game'.angel.going_up
                /\ s_game'.blocks[i].exists]_vars

\* the Angel is on its way down to a missing block marked as repairing, while
\* another block exists and a bean is in the air
C36_Witness ==
  /\ s_game.state = "Playing"
  /\ s_game.angel.active
  /\ ~s_game.angel.going_up
  /\ s_game.angel.y > 0
  /\ C36_Repairing(s_game) = {s_game.angel.target_block_index}
  /\ \E b \in BeanIdx : s_game.beans[b].active

\* C37: the tongue is active only in a Playing game with a living character.  The
\* character dies only on a tick that ends with the tongue inactive; while it is
\* dead no press and no tick changes the tongue, and the game ends only from a
\* state with the tongue inactive.  An active tongue becomes inactive only by
\* completing its retraction: on a tick that finds it going back and brings its
\* tip to the character's height or below.
C37_TongueOutlivesNoOne ==
  /\ [](s_game.pyoro.tongue.active =>
          (s_game.state = "Playing" /\ ~s_game.pyoro.dead))
  /\ [][/\ (~s_game.pyoro.dead /\ s_game'.pyoro.dead) =>
             (IsTick /\ ~s_game'.pyoro.tongue.active)
        /\ (s_game.pyoro.dead /\ s_game'.pyoro.dead) =>
             s_game'.pyoro.tongue = s_game.pyoro.tongue
        /\ (s_game.state = "Playing" /\ s_game'.state = "GameOver") =>
             ~s_game.pyoro.tongue.active
        /\ (s_game.pyoro.tongue.active /\ ~s_game'.pyoro.tongue.active) =>
             /\ IsTick
             /\ s_game.pyoro.tongue.going_back
             /\ s_game'.pyoro.tongue.y >= s_game'.pyoro.y]_vars

\* select has just been pressed on a dead character whose tongue had been shot
\* and had returned before the bean hit: the tongue stays inactive
C37_Witness ==
  /\ last.op = "select"
  /\ s_game.state = "Playing"
  /\ s_game.pyoro.dead
  /\ ~s_game.pyoro.tongue.active
  /\ s_game.pyoro.tongue.going_back
  /\ s_game.pyoro.tongue.y >= s_game.pyoro.y

\* C38: while the tongue is active no press and no tick changes the character's
\* x or facing or the tongue's stored direction, and the step queue is empty when
\* the step ends; so the tongue's direction equals the character's facing for as
\* long as the tongue is active.  Whenever the pending step count is positive the
\* pending direction equals the character's facing.
C38_FacingFixedUnderTongue ==
  /\ [](/\ s_game.pyoro.tongue.active =>
             s_game.pyoro.tongue.direction = s_game.pyoro.direction
        /\ s_pending_step_count > 0 =>
             s_pending_step_dir = s_game.pyoro.direction)
  /\ [][s_game.pyoro.tongue.active =>
          /\ s_game'.pyoro.x = s_game.pyoro.x
          /\ s_game'.pyoro.direction = s_game.pyoro.direction
          /\ s_game'.pyoro.tongue.direction = s_game.pyoro.tongue.direction
          /\ s_pending_step_count' = 0]_vars

\* a move press against the character's facing has just been made while the
\* tongue is out, after the character had walked: facing and tongue direction
\* are as they were
C38_Witness ==
  /\ last.op \in {"down", "down_repeat"}
  /\ s_game.pyoro.tongue.active
  /\ s_game.pyoro.tongue.y < s_game.pyoro.y - PYORO_SIZE * Unit
  /\ s_game.pyoro.x # (GAME_WIDTH * Unit) \div 2
  /\ s_game.pyoro.direction = -1
  /\ s_game.pyoro.tongue.direction = -1

\* the slots of the high-score table that hold a score
C39_Entries(hs) == {i \in DOMAIN hs : hs[i] # HIGH_SCORE_EMPTY}

\* C39: the high-score table, the last game's score and the persistent store are
\* written only by the tick that moves the game from Playing to GameOver, and that
\* tick makes exactly one insert_high_score call, with the game's score: one
\* persistence write, one more entry.  No later tick and no press writes them, so
\* the table holds one entry for each game that has ended (games started, less the
\* one being played).
C39_ScoreRecordedOnce ==
  /\ [](/\ Cardinality(C39_Entries(s_high_scores)) = persist_writes
        /\ persist_writes = IF s_game.state = "Playing" THEN timers - 1 ELSE timers)
  /\ [][/\ (\/ s_high_scores' # s_high_scores
            \/ persist_writes' # persist_writes
            \/ s_last_game_score' # s_last_game_score) =>
             (IsTick /\ s_game.state = "Playing" /\ s_game'.state = "GameOver")
        /\ (s_game.state = "Playing" /\ s_game'.state = "GameOver") =>
             /\ IsTick
             /\ s_game.pyoro.dead
             /\ s_last_game_score' = s_game.score
             /\ persist_writes' = persist_writes + 1
             /\ s_high_scores' =
                  insert_high_score([hs |-> s_high_scores, pw |-> persist_writes],
                                    s_game.score).hs
             /\ Cardinality(C39_Entries(s_high_scores')) =
                  Cardinality(C39_Entries(s_high_scores)) + 1]_vars

\* the second game has ended: the table holds two entries, one for each game,
\* the higher of them a positive score
C39_Witness ==
  /\ s_game.state \in {"GameOver", "Menu"}
  /\ timers = 2
  /\ persist_writes = 2
  /\ Cardinality(C39_Entries(s_high_scores)) = 2
  /\ s_high_scores[0] > 0

\* the number of slots of the table that hold v
C40_Count(hs, v) == Cardinality({i \in DOMAIN hs : hs[i] = v})

\* the table is in non-increasing order and its empty slots form a suffix
C40_Sorted(hs) ==
  \A i \in 0 .. (NUM_HIGH_SCORES - 2) :
    /\ hs[i] >= hs[i + 1]
    /\ hs[i] = HIGH_SCORE_EMPTY => hs[i + 1] = HIGH_SCORE_EMPTY

\* the score that leaves the largest-ten multiset when score joins a full table
C40_Dropped(hs, score) ==
  IF score > hs[NUM_HIGH_SCORES - 1] THEN hs[NUM_HIGH_SCORES - 1] ELSE score

\* C40: starting from the empty table, after every sequence of insert_high_score
\* calls with non-negative scores the table is in non-increasing order with its
\* EMPTY slots as a suffix, and its entries are the largest ten of the scores
\* inserted, as a multiset: each call adds the score to the multiset of entries
\* and, when the table was full, takes the smallest of the eleven away again.
C40_TopTen ==
  /\ [](/\ C40_Sorted(s_high_scores)
        /\ \A i \in DOMAIN s_high_scores :
             s_high_scores[i] \in FinalScores \cup {HIGH_SCORE_EMPTY})
  /\ [][last'.op = "record_score" =>
          LET score == last'.arg
              full == C40_Count(s_high_scores, HIGH_SCORE_EMPTY) = 0
          IN /\ C40_Count(s_high_scores', HIGH_SCORE_EMPTY) =
                  IF full THEN 0 ELSE C40_Count(s_high_scores, HIGH_SCORE_EMPTY) - 1
             /\ \A v \in FinalScores :
                  C40_Count(s_high_scores', v) =
                    C40_Count(s_high_scores, v)
                      + (IF v = score THEN 1 ELSE 0)
                      - (IF full /\ v = C40_Dropped(s_high_scores, score)
                         THEN 1 ELSE 0)]_vars

\* a score above the lowest entry has just been inserted into a full table that
\* holds equal scores: the lowest entry has been pushed out
C40_Witness ==
  /\ last.op = "record_score"
  /\ C40_Count(s_high_scores, HIGH_SCORE_EMPTY) = 0
  /\ last.arg > s_high_scores[NUM_HIGH_SCORES - 1]
  /\ persist_writes > NUM_HIGH_SCORES
  /\ persist_writes = last.pw + 1
  /\ C40_Count(s_high_scores, last.arg) > 1

====
